---- MODULE Spec2Model ----
(***************************************************************************)
(* State-machine model of the per-tenant collection engine of the Office   *)
(* 365 audit log collector: the message loop (src/src/collector.rs         *)
(* message_loop), the Collector's monitor loop (Collector::monitor and the  *)
(* handlers it calls), the known-blobs cache (src/src/known_blobs_cache.rs) *)
(* and the two worker pools (api_connection, described in spec.md 4.5 and   *)
(* 4.6) that feed them.                                                     *)
(* Around a run: the tenant's task and the daemon loop (src/src/main.rs),  *)
(* the time windows (src/src/config.rs get_needed_runs_from) and the state  *)
(* files of the subscriptions (src/src/state.rs).                           *)
(*                                                                         *)
(* Elapsed time (Instant) is counted in ticks of 30 seconds: the rate-limit *)
(* backoff lasts one tick and a minute of the global timeout is two ticks.  *)
(* Wall-clock instants (Utc::now, expirations, bookmarks, window endpoints) *)
(* are integers in clock units, SUB_MS units to the millisecond, so that a  *)
(* string formatted to milliseconds or seconds loses what the format drops. *)
(*                                                                         *)
(* One pass of a polling loop (message_loop, monitor) is one step.  A       *)
(* worker's channel sends are separate steps.  Channels are unbounded here  *)
(* (their capacity of 10000 is never reached in the modelled runs) and the  *)
(* `duplicate` multiplier has its default value 1.                          *)
(***************************************************************************)
EXTENDS Integers, Sequences, FiniteSets, TLC

\* ------------------------------------------------------------------ bounds
MaxRetries == 2        \* configured `retries` ranges over 1..MaxRetries
MaxFaults == 3         \* requests of a run that the provider fails
MaxNow == 2            \* last clock tick
Threads == 2           \* collect.maxThreads: pages walked at the same time
SUB_MS == 2            \* resolution of the wall clock: units per millisecond
MaxRuns == 2           \* collections the daemon loop starts

\* usize arithmetic: a build without overflow checks wraps at the type's
\* modulus, a build with them panics.  The modulus 2^64 is scaled down to
\* this bound; no counter of a modelled run gets near it except by wrapping
\* below zero.
USIZE_MOD == 65536

\* The monotonic clock is read in SUB_TICKS parts of a tick, so that two
\* events within one backoff of 30 s can be told apart.
SUB_TICKS == 2

\* The capacity of the retry map, 50_000 entries in message_loop, scaled
\* down so that the failing URLs of a modelled run can fill the map.
MAX_RETRY_ENTRIES == 2

\* ----------------------------------------------------- program constants
DEFAULT_MAX_ENTRIES == 1000000
CLEANUP_INTERVAL == 10000
BACKOFF_TICKS == 1     \* t.elapsed().as_secs() >= 30, in ticks of 30 s
TICKS_PER_MINUTE == 2  \* start.elapsed().as_secs().div(60), in ticks of 30 s

NoTime == -1           \* Option::None for an Instant / a DateTime

\* ------------------------------------------------------------ wall clock
Second == 1000 * SUB_MS
Hour == 3600 * Second
TickLen == 30 * Second
\* the wall-clock instant of tick 0: half a second past a full second
Epoch == 170 * Hour + 500 * SUB_MS
AtTick(n) == Epoch + n * TickLen

\* chrono's "%Y-%m-%dT%H:%M:%SZ" drops the fraction of a second,
\* "%Y-%m-%dT%H:%M:%S%.3fZ" what is below the millisecond
FormatSeconds(t) == t - (t % Second)
FormatMillis(t) == t - (t % SUB_MS)

\* ------------------------------------------------------------ the tenant
\* What the provider serves in the modelled runs.  Three content types; the
\* listing of the first has two pages, that of DLP.All (d1) is empty.  Blob
\* b1 is listed by both audit feeds, blob b0 is already in the known_blobs
\* file when the run starts.  The listing of a time window before the last
\* one (w1, v1, u1) is empty.
ExchangeUrls == << <<"Audit.Exchange", "p1">> >>
GeneralUrls == << <<"Audit.General", "p3">> >>
BothUrls == << <<"Audit.Exchange", "p1">>, <<"Audit.General", "p3">> >>

\* q1 and q2: listings of three blobs and of one, for every worker to be busy
BusyUrls == << <<"Audit.Exchange", "q1">>, <<"Audit.General", "q2">> >>
AllUrls == {"p1", "p2", "p3", "d1", "w1", "v1", "u1", "c0", "c1",
            "q1", "q2", "c2", "c3", "c4", "c5"}
ContentIds == {"b0", "b1", "b2", "b3", "b4", "b5"}

NextPageUri(url) == IF url = "p1" THEN "p2" ELSE ""

PageContentIds(url) ==
    IF url \in {"d1", "w1", "v1", "u1"} THEN <<>>
    ELSE IF url = "p2" THEN <<"b0">>
    ELSE IF url = "q1" THEN <<"b2", "b3", "b4">>
    ELSE IF url = "q2" THEN <<"b5">> ELSE <<"b1">>

\* create_base_urls: one listing URL for every time window of every
\* subscription
FeedUrl(ct) ==
    IF ct = "Audit.Exchange" THEN "p1"
    ELSE IF ct = "Audit.General" THEN "p3" ELSE "d1"
EarlierUrl(ct) ==
    IF ct = "Audit.Exchange" THEN "w1"
    ELSE IF ct = "Audit.General" THEN "v1" ELSE "u1"
RECURSIVE create_base_urls(_, _)
create_base_urls(subs, r) ==
    IF subs = <<>> THEN <<>>
    ELSE LET ct == Head(subs)
             n == Len(r[ct])
         IN [i \in 1..n |->
                <<ct, IF i = n THEN FeedUrl(ct) ELSE EarlierUrl(ct)>>]
            \o create_base_urls(Tail(subs), r)

\* an expiration string: its format and the instant it spells
ExpString(fmt, t) == [fmt |-> fmt, t |-> t]

ContentExpiration(id) ==
    IF id = "b1" THEN ExpString("frac_z", AtTick(3))
    ELSE ExpString("z", FormatSeconds(AtTick(2)))

ContentUri(id) ==
    CASE id = "b1" -> "c1" [] id = "b2" -> "c2" [] id = "b3" -> "c3"
      [] id = "b4" -> "c4" [] id = "b5" -> "c5" [] OTHER -> "c0"

ContentToRetrieve(id, content_type) ==
    [content_id |-> id, content_type |-> content_type,
     url |-> ContentUri(id), expiration |-> ContentExpiration(id)]

\* the body served for a blob: text that parses as a JSON array of records,
\* or text that does not
Body(is_json, logs) == [json |-> is_json, logs |-> logs]

ContentBody(id) ==
    Body(TRUE, << [Operation |-> "Send"], [Operation |-> "Read"] >>)

NotJsonBody == Body(FALSE, <<>>)

\* collect.filter of the modelled configuration: one key for the Exchange
\* feed, two keys for DLP.All, none for the General feed
FilterConfig ==
    [ct \in {"Audit.Exchange", "DLP.All"} |->
        IF ct = "Audit.Exchange" THEN [Operation |-> "Send"]
        ELSE [Operation |-> "Send", Workload |-> "Exchange"]]

\* the sinks configured (file and graylog), the output cache size
NumInterfaces == 2
CacheSize == 2

\* ------------------------------------------------------- usize arithmetic
\* x - 1 and x + 1 on a usize in a release build
WrapDec(x) == (x + USIZE_MOD - 1) % USIZE_MOD
WrapInc(x) == (x + 1) % USIZE_MOD
\* usize::saturating_sub(1)
SaturatingDec(x) == IF x = 0 THEN 0 ELSE x - 1

\* ------------------------------------------------------------ lru::LruCache
\* A cache is a sequence of [k, v] entries, most recently used first.
LruHas(m, k) == \E i \in 1..Len(m) : m[i].k = k
LruIndex(m, k) == CHOOSE i \in 1..Len(m) : m[i].k = k
LruPeek(m, k) == m[LruIndex(m, k)].v
LruPop(m, k) == SelectSeq(m, LAMBDA e : e.k # k)
\* a get that leaves the order as it is
LruTouchNone(m, k) == m

\* get / get_mut: the entry moves to the front
LruTouch(m, k) ==
    IF LruHas(m, k) THEN <<m[LruIndex(m, k)]>> \o LruPop(m, k) ELSE m
\* put: replaces the value of a present key, else inserts and, at capacity,
\* drops the least recently used entry
LruPut(m, k, v, cap) ==
    IF LruHas(m, k) THEN <<[k |-> k, v |-> v]>> \o LruPop(m, k)
    ELSE IF Len(m) >= cap THEN <<[k |-> k, v |-> v]>> \o SubSeq(m, 1, cap - 1)
    ELSE <<[k |-> k, v |-> v]>> \o m
LruKeys(m) == {m[i].k : i \in 1..Len(m)}

\* --------------------------------------------------------- KnownBlobsCache
\* [cache: LruCache id -> expiration instant, insert_count, max_entries]
\* with_capacity: a capacity of 0 becomes an LruCache of capacity 1
KbWithCapacity(max_entries) ==
    [cache |-> <<>>, insert_count |-> 0, max_entries |-> max_entries]
LruCap(kb) == IF kb.max_entries = 0 THEN 1 ELSE kb.max_entries

ParseFormats == {"frac_z", "z", "plain", "rfc3339"}
parse_expiration(s) == IF s.fmt \in ParseFormats THEN s.t ELSE NoTime

KbCleanupExpired(kb, t) ==
    [kb EXCEPT !.cache = SelectSeq(kb.cache, LAMBDA e : ~(t >= e.v))]

\* an insert that also stores an entry expiring at the instant of the call
KbInsertAtExpiry(kb, id, expiration_str, t) ==
    LET exp_time == parse_expiration(expiration_str) IN
    IF exp_time # NoTime /\ t <= exp_time
    THEN [kb EXCEPT !.cache = LruPut(kb.cache, id, exp_time, LruCap(kb)),
                    !.insert_count = kb.insert_count + 1]
    ELSE kb

\* a contains that answers for every entry held, expired or not
KbContainsResultHeld(kb, id, t) == LruHas(kb.cache, id)

KbContainsResult(kb, id, t) ==
    LruHas(kb.cache, id) /\ ~(t >= LruPeek(kb.cache, id))

KbContains(kb, id, t) ==
    IF LruHas(kb.cache, id)
    THEN IF t >= LruPeek(kb.cache, id)
         THEN [kb EXCEPT !.cache = LruPop(kb.cache, id)]
         ELSE [kb EXCEPT !.cache = LruTouch(kb.cache, id)]
    ELSE kb

KbInsert(kb, id, expiration_str, t) ==
    LET exp_time == parse_expiration(expiration_str) IN
    IF exp_time # NoTime /\ t < exp_time
    THEN LET put == [kb EXCEPT
                        !.cache = LruPut(kb.cache, id, exp_time, LruCap(kb)),
                        !.insert_count = kb.insert_count + 1]
         IN IF put.insert_count >= CLEANUP_INTERVAL
            THEN [KbCleanupExpired(put, t) EXCEPT !.insert_count = 0]
            ELSE put
    ELSE kb

\* to_hashmap: every entry held, expired or not, as id -> formatted string
KbToHashmap(kb) ==
    [id \in LruKeys(kb.cache) |->
        ExpString("frac_z", FormatMillis(LruPeek(kb.cache, id)))]

\* save_to_file: sweep, then one line "{id},{expiration}" per entry, in the
\* order of the cache's iterator (most recently used first)
KbSaveToFile(kb, t) ==
    LET swept == KbCleanupExpired(kb, t) IN
    [i \in 1..Len(swept.cache) |->
        [id |-> swept.cache[i].k,
         exp |-> ExpString("frac_z", FormatMillis(swept.cache[i].v))]]

\* ids are text: the one id of the modelled world that contains a comma,
\* and what precedes its first comma
HasComma(id) == id = "b,3"
BeforeComma(id) == IF id = "b,3" THEN "b" ELSE id
Unparseable == ExpString("invalid", NoTime)

\* line.split_once(','): the line is cut at its first comma, which is the
\* one save_to_file wrote only when the id holds none
SplitOnce(line) ==
    IF HasComma(line.id)
    THEN [id |-> BeforeComma(line.id), expiration_str |-> Unparseable]
    ELSE [id |-> line.id, expiration_str |-> line.exp]

\* load_from_file: a cache of the default capacity that is put every line
\* whose expiration parses and is later than now
RECURSIVE KbLoadLines(_, _, _)
KbLoadLines(kb, lines, t) ==
    IF lines = <<>> THEN kb
    ELSE LET sp == SplitOnce(Head(lines))
             expiration == parse_expiration(sp.expiration_str)
         IN KbLoadLines(
                IF expiration # NoTime /\ t < expiration
                THEN [kb EXCEPT !.cache =
                         LruPut(kb.cache, sp.id, expiration, LruCap(kb))]
                ELSE kb,
                Tail(lines), t)

KbLoadFromFile(lines, t) ==
    KbLoadLines(KbWithCapacity(DEFAULT_MAX_ENTRIES), lines, t)

\* the known_blobs file found at start-up: blob b0, saved by an earlier run
StartupKnownBlobsFile ==
    << [id |-> "b0",
        exp |-> ExpString("frac_z",
                          FormatMillis(parse_expiration(ContentExpiration("b0"))))] >>

\* The tenants of one configuration: run_collection_for_all_tenants spawns
\* a task per tenant, each with its own Collector and KnownBlobsCache, all
\* with the working_dir of the one Config.  inserted is history: the ids a
\* Collector's handle_content stored.
PeerTenants == {"t1", "t2"}
PeersSpawned ==
    [t \in PeerTenants |->
        [pc |-> "spawned", kb |-> KbWithCapacity(DEFAULT_MAX_ENTRIES),
         inserted |-> {}]]

\* ------------------------------------------------------------- handle_log
\* a filter that also wants every one of its keys present in the record
PassesFiltersStrict(log, content_type) ==
    IF content_type \in DOMAIN FilterConfig
    THEN \A k \in DOMAIN FilterConfig[content_type] :
            k \in DOMAIN log /\ log[k] = FilterConfig[content_type][k]
    ELSE TRUE

\* the record passes unless a filter key it carries has another value
PassesFilters(log, content_type) ==
    IF content_type \in DOMAIN FilterConfig
    THEN \A k \in DOMAIN FilterConfig[content_type] :
            k \in DOMAIN log => log[k] = FilterConfig[content_type][k]
    ELSE TRUE

WithOriginFeed(log, content_type) ==
    [k \in DOMAIN log \cup {"OriginFeed"} |->
        IF k = "OriginFeed" THEN content_type ELSE log[k]]

\* ------------------------------------------------------- state files
ContentTypes == {"Audit.Exchange", "Audit.General", "DLP.All"}

\* a state file that does not exist, and one holding a TenantSubscriptionState
NoFile ==
    [exists |-> FALSE, last_log_time |-> NoTime, last_run |-> NoTime,
     first_run |-> FALSE]
StateFile(last_log_time, last_run, first_run) ==
    [exists |-> TRUE, last_log_time |-> last_log_time, last_run |-> last_run,
     first_run |-> first_run]

\* save_state of one record for every subscription of the list
SaveForAll(files, subs, rec) ==
    [ct \in DOMAIN files |->
        IF \E i \in 1..Len(subs) : subs[i] = ct THEN rec ELSE files[ct]]

\* main.rs get_start_time_from_state at instant t: the start time (NoTime
\* for None) and the state files it leaves
get_start_time_from_state(only_future, subs, files, t) ==
    IF ~only_future \/ subs = <<>>
    THEN [start |-> NoTime, files |-> files]
    ELSE IF files[subs[1]].exists
    THEN [start |-> files[subs[1]].last_log_time, files |-> files]
    ELSE [start |-> t - Second,
          files |-> SaveForAll(files, subs, StateFile(t - Second, t, TRUE))]

\* ------------------------------------------------------------ StateManager
\* Text (a tenant id, a subscription, a file name) is a sequence of pieces,
\* each a run of ordinary characters or one single character.
SanitizedChars == {"/", "\\", ":", "*", "?", "\"", "<", ">", "|"}
sanitize_filename(s) ==
    [i \in DOMAIN s |-> IF s[i] \in SanitizedChars THEN "_" ELSE s[i]]

get_state_file_path(tenant_id, subscription) ==
    <<"office365-">> \o sanitize_filename(tenant_id) \o <<"-">>
        \o sanitize_filename(subscription) \o <<".json">>

\* what is at a path: nothing, the JSON of a TenantSubscriptionState (serde
\* writes a DateTime with every digit of its fraction, and reads them back),
\* text that is no such JSON, or bytes that are not UTF-8
Absent == [kind |-> "absent", state |-> NoFile]
JsonOf(st) == [kind |-> "state", state |-> st]
NotJson == [kind |-> "text", state |-> NoFile]
NotUtf8 == [kind |-> "binary", state |-> NoFile]

\* state.rs lines 55-82; NoFile stands for None
load_state(files, tenant_id, subscription) ==
    LET f == files[get_state_file_path(tenant_id, subscription)] IN
    IF f.kind = "absent" THEN NoFile
    ELSE IF f.kind = "binary" THEN NoFile
    ELSE IF f.kind = "state" THEN f.state
    ELSE NoFile

\* lines 85-107: the files after fs::write succeeded, failed leaving the
\* file as it was, or failed after the file was truncated
save_state(files, tenant_id, subscription, st, outcome) ==
    LET path == get_state_file_path(tenant_id, subscription) IN
    IF outcome = "written" THEN [files EXCEPT ![path] = JsonOf(st)]
    ELSE IF outcome = "truncated" THEN [files EXCEPT ![path] = NotJson]
    ELSE files

\* lines 138-140
is_first_run(files, tenant_id, subscription) ==
    load_state(files, tenant_id, subscription) = NoFile

\* -------------------------------------------------------- RecordTypeFilter
\* recordtype_filter.rs lines 13-67: an Option of a set of record types;
\* the function returns None for every subscription (its match on the
\* subscription is commented out)
NoRecordTypes == [some |-> FALSE, types |-> {}]
get_allowed_recordtypes(subscription) == NoRecordTypes

\* lines 70-75
should_include_log(subscription, record_type) ==
    LET allowed_types == get_allowed_recordtypes(subscription) IN
    IF allowed_types.some THEN record_type \in allowed_types.types ELSE TRUE

\* ------------------------------------------------------------ time windows
MAX_HOURS == 168
WINDOW_HOURS == 24

\* the while loop of get_needed_runs_from and the push that follows it: the
\* (start, end) strings of one subscription
RECURSIVE SplitWindows(_, _)
\* a loop that also splits off a remainder of exactly 24 hours
SplitWindowsEager(start_time, end_time) ==
    IF end_time - start_time >= WINDOW_HOURS * Hour
    THEN << <<FormatSeconds(start_time),
              FormatSeconds(start_time + WINDOW_HOURS * Hour)>> >>
         \o SplitWindows(start_time + WINDOW_HOURS * Hour, end_time)
    ELSE << <<FormatSeconds(start_time), FormatSeconds(end_time)>> >>

SplitWindows(start_time, end_time) ==
    IF end_time - start_time > WINDOW_HOURS * Hour
    THEN << <<FormatSeconds(start_time),
              FormatSeconds(start_time + WINDOW_HOURS * Hour)>> >>
         \o SplitWindows(start_time + WINDOW_HOURS * Hour, end_time)
    ELSE << <<FormatSeconds(start_time), FormatSeconds(end_time)>> >>

\* the panic! of get_needed_runs_from
TooManyHours(from, hours) == from = NoTime /\ hours > MAX_HOURS

\* a start that is the earlier of the given start and now - hours
start_time_base_min(from, hours, end_time) ==
    IF from # NoTime /\ from < end_time - hours * Hour THEN from
    ELSE end_time - hours * Hour

start_time_base(from, hours, end_time) ==
    IF from # NoTime THEN from ELSE end_time - hours * Hour

get_needed_runs_from(from, hours, subs, end_time) ==
    [ct \in {subs[i] : i \in 1..Len(subs)} |->
        SplitWindows(start_time_base(from, hours, end_time), end_time)]

\* ---------------------------------------------------------------- state
VARIABLES
    \* configuration of the run
    urls,                 \* config.urls still to be seeded by the message loop
    retries,              \* collect.retries
    global_timeout,       \* collect.globalTimeout, minutes
    build,                \* "debug" (overflow checks on) or "release"
    only_future_events,   \* only_future_events of the configuration
    \* the tenant's task of run_collection_for_all_tenants
    subscriptions,        \* config.get_subscriptions()
    hours_to_collect,     \* collect.hours_to_collect
    start_from,           \* result of get_start_time_from_state
    runs,                 \* result of get_needed_runs_from
    run_pc,               \* where the tenant's task is
    run_no,               \* collections started by the daemon loop
    \* channels, as the queues of messages in flight
    blobs_ch, blob_error_ch, content_ch, content_error_ch,
    result_ch, status_ch, stats_ch, kill_ch,
    content_closed,       \* content_tx.close_channel() was called
    \* message loop
    state,                \* RunState
    rate_limit_backoff_started,
    retry_map,
    ml_pc,
    \* blob discoverer: the pages being walked
    disc,
    known_blobs_snapshot,
    \* Collector
    known_blobs,
    cache,                \* OutputCache, records in insertion order
    saved,
    sinks,                \* what each interface was sent
    mon_pc,
    mon_exit,             \* how monitor left its loop
    known_blobs_file,     \* <working_dir>/known_blobs
    bookmark,             \* the tenant's state file of each subscription
    \* environment
    now,                  \* Instant::now(), whole ticks
    phase,                \* Instant::now(), parts of a tick
    ml_send,              \* the send the message loop is suspended in
    in_hand,              \* requests of the workers with sends to make
    peers,                \* the tenants' Collectors sharing working_dir
    faults_left,          \* requests the provider will still fail
    file_path_ok,         \* the path of the file sink can be opened
    state_files,          \* the working directory's state files, by path
    \* history (not program state)
    resends,              \* per URL: re-sends by the message loop
    giveups,              \* per URL: times the message loop gave up on it
    fetches,              \* per content id: GETs of the fetcher
    handled,              \* records handle_log put into the OutputCache
    known_fetch,          \* the discoverer forwarded a blob the cache holds
    kb_ret,               \* the last call made on the cache and what it returned
    kb_recent,            \* ids in the order of their last insert or hit
    sm_ret,               \* the last call made on the StateManager
    sm_saved,             \* per (tenant, subscription): the state last written
    rt_ret                \* the last call made on the RecordTypeFilter

config_vars == <<urls, retries, global_timeout, build, only_future_events>>
tenant_vars == <<subscriptions, hours_to_collect, start_from, runs, run_pc,
                 run_no>>
chan_vars == <<blobs_ch, blob_error_ch, content_ch, content_error_ch,
               result_ch, status_ch, stats_ch, kill_ch, content_closed>>
ml_vars == <<state, rate_limit_backoff_started, retry_map, ml_pc>>
disc_vars == <<disc, known_blobs_snapshot>>
mon_vars == <<known_blobs, cache, saved, sinks, mon_pc, mon_exit,
              known_blobs_file, bookmark>>
env_vars == <<now, faults_left>>
hist_vars == <<resends, giveups, fetches, handled, known_fetch>>
kb_hist == <<kb_ret, kb_recent>>
unit_vars == <<state_files, sm_ret, sm_saved, rt_ret>>
bounded_vars == <<ml_send, in_hand>>

\* no send of the message loop is waiting for room
NoSend == [ch |-> "none", msg |-> <<>>]
vars == <<config_vars, tenant_vars, chan_vars, ml_vars, disc_vars, mon_vars,
          env_vars, hist_vars, kb_hist, file_path_ok, unit_vars, phase,
          bounded_vars, peers>>

\* Utc::now()
UtcNow == AtTick(now)

\* Instant::now(): the monotonic clock, in parts of a tick
InstantNow == now * SUB_TICKS + phase

\* a call on the cache: the method, its id argument, whether the cache held
\* an entry for the id and how many entries it held when called, the value
\* returned, and the expiration string passed (to insert only)
NoArg == [fmt |-> "", t |-> NoTime]
Call(op, id, kb, ret) ==
    [op |-> op, id |-> id, held |-> LruHas(kb.cache, id),
     len |-> Len(kb.cache), ret |-> ret, exp |-> NoArg]
NoCall ==
    [op |-> "none", id |-> "", held |-> FALSE, len |-> 0, ret |-> FALSE,
     exp |-> NoArg]

\* the tenants and subscriptions of the StateManager's calls: two tenant
\* ids that differ in one character, two subscriptions
TenantIds == {<<"t", "/", "1">>, <<"t", "_", "1">>}
SubscriptionNames == {<<"Audit.General">>, <<"DLP.All">>}
StatePairs == TenantIds \X SubscriptionNames
StatePaths == {get_state_file_path(p[1], p[2]) : p \in StatePairs}

SmCall(op, tenant_id, subscription, st, flag) ==
    [op |-> op, tenant_id |-> tenant_id, subscription |-> subscription,
     state |-> st, flag |-> flag]
NoSmCall == SmCall("none", <<>>, <<>>, NoFile, FALSE)

\* no state file in the working directory, no call made
InitStateManager ==
    /\ state_files = [path \in StatePaths |-> Absent]
    /\ sm_ret = NoSmCall
    /\ sm_saved = [p \in StatePairs |-> NoFile]
    /\ rt_ret = [op |-> "none", subscription |-> "", record_type |-> 0,
                 ret |-> FALSE]

RunStateDefault ==
    [awaiting_content_types |-> 0, awaiting_content_blobs |-> 0,
     rate_limited |-> FALSE,
     stats |-> [blobs_found |-> 0, blobs_successful |-> 0,
                blobs_error |-> 0, blobs_retried |-> 0]]

\* The state when Collector::new returns: channels created, the three tasks
\* spawned, the known_blobs file loaded and copied for the discoverer.  The
\* arguments are the configurations and the provider behaviour of a
\* specification.
InitWith(url_choices, retry_choices, timeouts, builds, fault_budget) ==
    /\ urls \in url_choices
    /\ retries \in retry_choices
    /\ global_timeout \in timeouts
    /\ build \in builds
    /\ only_future_events = TRUE
    /\ subscriptions = [i \in DOMAIN urls |-> urls[i][1]]
    /\ hours_to_collect = WINDOW_HOURS
    /\ start_from = AtTick(0) - Second
    /\ runs = get_needed_runs_from(start_from, hours_to_collect,
                                   subscriptions, AtTick(0))
    /\ run_pc = "collecting"
    /\ run_no = 1
    /\ blobs_ch = <<>> /\ blob_error_ch = <<>> /\ content_ch = <<>>
    /\ content_error_ch = <<>> /\ result_ch = <<>> /\ status_ch = <<>>
    /\ stats_ch = <<>> /\ kill_ch = <<>>
    /\ content_closed = FALSE
    /\ state = RunStateDefault
    /\ rate_limit_backoff_started = NoTime
    /\ retry_map = <<>>
    /\ ml_pc = "seed"
    /\ disc = {}
    /\ known_blobs = KbLoadFromFile(StartupKnownBlobsFile, AtTick(0))
    /\ known_blobs_snapshot =
           KbToHashmap(KbLoadFromFile(StartupKnownBlobsFile, AtTick(0)))
    /\ cache = <<>>
    /\ saved = 0
    /\ sinks = [i \in 1..NumInterfaces |-> <<>>]
    /\ mon_pc = "poll"
    /\ mon_exit = "none"
    /\ known_blobs_file = StartupKnownBlobsFile
    /\ bookmark = get_start_time_from_state(
                      TRUE, subscriptions, [ct \in ContentTypes |-> NoFile],
                      AtTick(0)).files
    /\ now = 0
    /\ phase = 0
    /\ ml_send = NoSend
    /\ in_hand = {}
    /\ peers = PeersSpawned
    /\ faults_left = fault_budget
    /\ file_path_ok = TRUE
    /\ resends = [u \in AllUrls |-> 0]
    /\ giveups = [u \in AllUrls |-> 0]
    /\ fetches = [b \in ContentIds |-> 0]
    /\ handled = <<>>
    /\ known_fetch = FALSE
    /\ kb_ret = NoCall
    /\ kb_recent = <<>>
    /\ InitStateManager

Builds == {"debug", "release"}

Init == InitWith({ExchangeUrls, GeneralUrls}, 1..MaxRetries, {0}, Builds,
                 MaxFaults)

\* a receiver of the message loop is alive until its task ends
MlAlive == ml_pc \notin {"done", "panicked"}
\* the Collector owns result_rx, stats_rx and kill_tx until monitor returns
CollectorAlive == mon_pc \notin {"done", "panicked"}

\* a send on a channel whose receiver is gone is an error: the value is lost
Send(ch, msg, open) == IF open THEN Append(ch, msg) ELSE ch

\* arithmetic overflow panics when the build checks it
Panics(overflows) == build = "debug" /\ overflows

\* -------------------------------------------------------- message_loop
\* lines 523-526: one base URL is sent and counted per step
MlSeed ==
    /\ ml_pc = "seed"
    /\ IF urls = <<>>
       THEN /\ ml_pc' = "loop"
            /\ UNCHANGED <<urls, blobs_ch, state>>
       ELSE /\ blobs_ch' = Append(blobs_ch, Head(urls))
            /\ urls' = Tail(urls)
            /\ state' = [state EXCEPT !.awaiting_content_types = WrapInc(@)]
            /\ ml_pc' = "seed"
    /\ UNCHANGED <<retries, global_timeout, build, only_future_events,
                   tenant_vars, kb_hist, file_path_ok, unit_vars, phase, bounded_vars, peers, blob_error_ch, content_ch,
                   content_error_ch, result_ch, status_ch, stats_ch, kill_ch,
                   content_closed, rate_limit_backoff_started, retry_map,
                   disc_vars, mon_vars, env_vars, hist_vars>>

\* One pass of the loop body (lines 538-660) is one step.  The pass is the
\* composition of its four parts in program order, each a function of the
\* message loop's view of the system:
MlView ==
    [pc |-> "loop", state |-> state,
     backoff |-> rate_limit_backoff_started, retry_map |-> retry_map,
     kill_ch |-> kill_ch, status_ch |-> status_ch,
     blob_error_ch |-> blob_error_ch, content_error_ch |-> content_error_ch,
     blobs_ch |-> blobs_ch, content_ch |-> content_ch,
     content_closed |-> content_closed,
     resends |-> resends, giveups |-> giveups]

\* lines 540-546: release of the backoff
BackoffOver(m) ==
    m.backoff # NoTime /\ InstantNow - m.backoff >= BACKOFF_TICKS * SUB_TICKS

ReleasePart(m) ==
    IF BackoffOver(m)
    THEN [m EXCEPT !.backoff = NoTime, !.state.rate_limited = FALSE]
    ELSE m

\* lines 549-554: the kill signal
KillPart(m) ==
    IF m.kill_ch = <<>> THEN m
    ELSE [m EXCEPT !.kill_ch = Tail(@),
                   !.pc = IF Head(m.kill_ch) THEN "grace" ELSE "loop"]

\* lines 671-675
check_done(st) ==
    st.awaiting_content_types = 0 /\ st.awaiting_content_blobs = 0

\* after a handler that checks for completion
DonePc(st) == IF check_done(st) THEN "grace" ELSE "loop"

\* lines 561-564
OnFoundNewContentBlob(m) ==
    IF Panics(m.state.awaiting_content_blobs = USIZE_MOD - 1)
    THEN [m EXCEPT !.pc = "panicked"]
    ELSE [m EXCEPT !.state.awaiting_content_blobs = WrapInc(@),
                   !.state.stats.blobs_found = @ + 1]

\* lines 570-576
OnFinishedContentBlobs(m) ==
    LET st == [m.state EXCEPT !.awaiting_content_types = SaturatingDec(@)]
    IN [m EXCEPT !.state = st, !.pc = DonePc(st)]

\* lines 580-587
OnRetrievedContentBlob(m) ==
    IF Panics(m.state.awaiting_content_blobs = 0)
    THEN [m EXCEPT !.pc = "panicked"]
    ELSE LET st == [m.state EXCEPT !.awaiting_content_blobs = WrapDec(@),
                                   !.stats.blobs_successful = @ + 1]
         IN [m EXCEPT !.state = st, !.pc = DonePc(st),
                      !.content_closed = @ \/ check_done(st)]

\* lines 591-598
OnErrorContentBlob(m) ==
    IF Panics(m.state.awaiting_content_blobs = 0)
    THEN [m EXCEPT !.pc = "panicked"]
    ELSE LET st == [m.state EXCEPT !.awaiting_content_blobs = WrapDec(@),
                                   !.stats.blobs_error = @ + 1]
         IN [m EXCEPT !.state = st, !.pc = DonePc(st),
                      !.content_closed = @ \/ check_done(st)]

\* OnBeingThrottled with the timer restarted by every BeingThrottled
OnBeingThrottledRestart(m) ==
    [m EXCEPT !.state.rate_limited = TRUE, !.backoff = InstantNow]

\* lines 599-605
OnBeingThrottled(m) ==
    IF m.backoff = NoTime
    THEN [m EXCEPT !.state.rate_limited = TRUE, !.backoff = InstantNow]
    ELSE m

\* lines 557-607: at most one status message per pass
StatusPart(m) ==
    IF m.pc # "loop" \/ m.status_ch = <<>> THEN m
    ELSE LET msg == Head(m.status_ch)
             r == [m EXCEPT !.status_ch = Tail(@)]
         IN CASE msg = "FoundNewContentBlob" -> OnFoundNewContentBlob(r)
              [] msg = "FinishedContentBlobs" -> OnFinishedContentBlobs(r)
              [] msg = "RetrievedContentBlob" -> OnRetrievedContentBlob(r)
              [] msg = "ErrorContentBlob" -> OnErrorContentBlob(r)
              [] OTHER -> OnBeingThrottled(r)

\* The retry decision common to lines 611-631 and 637-656, for an error that
\* arrived for `url` while `awaiting` is the counter a give-up decrements:
\*   kind "gave_up" : entry popped, counter decremented, blobs_error + 1
\*   kind "retry"   : budget decremented unless backing off, item re-sent
\*   kind "first"   : entry inserted with retries - 1, item re-sent
\*   kind "panic"   : an arithmetic overflow check failed
LaterRetriesLeft(left, backoff) ==
    IF backoff = NoTime THEN left - 1 ELSE left

FirstRetriesLeft == WrapDec(retries)

GiveUpAt(left) == left = 0

RetryDecision(m, url, awaiting) ==
    IF LruHas(m.retry_map, url)
    THEN IF GiveUpAt(LruPeek(m.retry_map, url))
         THEN [kind |-> IF Panics(awaiting = 0) THEN "panic" ELSE "gave_up",
               map |-> LruPop(m.retry_map, url)]
         ELSE [kind |-> "retry",
               map |-> LruPut(m.retry_map, url,
                              LaterRetriesLeft(LruPeek(m.retry_map, url),
                                               m.backoff),
                              MAX_RETRY_ENTRIES)]
    ELSE IF Panics(retries = 0)
         THEN [kind |-> "panic", map |-> m.retry_map]
         ELSE [kind |-> "first",
               map |-> LruPut(m.retry_map, url, FirstRetriesLeft,
                              MAX_RETRY_ENTRIES)]

Resent(kind) == kind \in {"retry", "first"}

\* blobs_retried added by an error on blob_error_rx (lines 622, 628)
BlobErrorRetried(kind) == IF Resent(kind) THEN 1 ELSE 0

\* lines 610-632: at most one discovery error per pass
BlobErrorPart(m) ==
    IF m.pc # "loop" \/ m.blob_error_ch = <<>> THEN m
    ELSE LET e == Head(m.blob_error_ch)
             url == e[2]
             d == RetryDecision(m, url, m.state.awaiting_content_types)
         IN [m EXCEPT
               !.blob_error_ch = Tail(@),
               !.retry_map = d.map,
               !.pc = IF d.kind = "panic" THEN "panicked" ELSE "loop",
               !.state.awaiting_content_types =
                   IF d.kind = "gave_up" THEN WrapDec(@) ELSE @,
               !.state.stats.blobs_error =
                   IF d.kind = "gave_up" THEN @ + 1 ELSE @,
               !.state.stats.blobs_retried = @ + BlobErrorRetried(d.kind),
               !.blobs_ch = IF Resent(d.kind) THEN Append(@, e) ELSE @,
               !.resends[url] = IF Resent(d.kind) THEN @ + 1 ELSE @,
               !.giveups[url] = IF d.kind = "gave_up" THEN @ + 1 ELSE @]

\* blobs_retried added by an error on content_error_rx (lines 636, 653)
ContentErrorRetried(kind) == IF kind = "first" THEN 2 ELSE 1

\* lines 635-657: at most one fetch error per pass; content_tx.send(..)
\* .await.unwrap() panics on a closed channel
ContentErrorPart(m) ==
    IF m.pc # "loop" \/ m.content_error_ch = <<>> THEN m
    ELSE LET content == Head(m.content_error_ch)
             url == content.url
             d == RetryDecision(m, url, m.state.awaiting_content_blobs)
             sent == Resent(d.kind) /\ ~m.content_closed
         IN [m EXCEPT
               !.content_error_ch = Tail(@),
               !.retry_map = d.map,
               !.pc = IF d.kind = "panic"
                         \/ (Resent(d.kind) /\ m.content_closed)
                      THEN "panicked" ELSE "loop",
               !.state.awaiting_content_blobs =
                   IF d.kind = "gave_up" THEN WrapDec(@) ELSE @,
               !.state.stats.blobs_error =
                   IF d.kind = "gave_up" THEN @ + 1 ELSE @,
               !.state.stats.blobs_retried = @ + ContentErrorRetried(d.kind),
               !.content_ch = IF sent THEN Append(@, content) ELSE @,
               !.resends[url] = IF sent THEN @ + 1 ELSE @,
               !.giveups[url] = IF d.kind = "gave_up" THEN @ + 1 ELSE @]

MlPass(m) ==
    ContentErrorPart(BlobErrorPart(StatusPart(KillPart(ReleasePart(m)))))

MlLoop ==
    /\ ml_pc = "loop"
    /\ LET m == MlPass(MlView)
       IN /\ ml_pc' = m.pc
          /\ state' = m.state
          /\ rate_limit_backoff_started' = m.backoff
          /\ retry_map' = m.retry_map
          /\ kill_ch' = m.kill_ch
          /\ status_ch' = m.status_ch
          /\ blob_error_ch' = m.blob_error_ch
          /\ content_error_ch' = m.content_error_ch
          /\ blobs_ch' = m.blobs_ch
          /\ content_ch' = m.content_ch
          /\ content_closed' = m.content_closed
          /\ resends' = m.resends
          /\ giveups' = m.giveups
    /\ UNCHANGED <<config_vars, tenant_vars, kb_hist, file_path_ok, unit_vars, phase, bounded_vars, peers, result_ch, stats_ch, disc_vars, mon_vars,
                   env_vars, fetches, handled, known_fetch>>

\* lines 661-668: after the 3 s sleep the stats are sent; unwrap() panics
\* when the Collector has dropped stats_rx
FinalStats ==
    <<state.stats.blobs_found, state.stats.blobs_successful,
      state.stats.blobs_retried, state.stats.blobs_error>>

MlSendStats ==
    /\ ml_pc = "grace"
    /\ IF CollectorAlive
       THEN /\ stats_ch' = Append(stats_ch, FinalStats)
            /\ ml_pc' = "done"
       ELSE /\ ml_pc' = "panicked"
            /\ UNCHANGED stats_ch
    /\ UNCHANGED <<config_vars, tenant_vars, kb_hist, file_path_ok, unit_vars, phase, bounded_vars, peers, blobs_ch, blob_error_ch, content_ch,
                   content_error_ch, result_ch, status_ch, kill_ch,
                   content_closed, state, rate_limit_backoff_started,
                   retry_map, disc_vars, mon_vars, env_vars, hist_vars>>

\* ------------------------------------------------------- blob discoverer
\* get_content_blobs_async (spec.md 4.5).  A worker takes one URL from the
\* blobs channel and issues one GET; for a listing it then handles the
\* entries in order (skip a known id, else forward the blob to the fetch
\* queue and emit FoundNewContentBlob: two sends, two steps), and last the
\* paging.  The membership test is made on the HashMap it was spawned with.
PageTask(e) ==
    [content_type |-> e[1], url |-> e[2], todo |-> PageContentIds(e[2]),
     sent |-> FALSE]

DiscGetOk ==
    /\ blobs_ch # <<>>
    /\ Cardinality(disc) < Threads
    /\ disc' = disc \cup {PageTask(Head(blobs_ch))}
    /\ blobs_ch' = Tail(blobs_ch)
    /\ UNCHANGED <<config_vars, tenant_vars, kb_hist, file_path_ok, unit_vars, phase, bounded_vars, peers, blob_error_ch, content_ch, content_error_ch,
                   result_ch, status_ch, stats_ch, kill_ch, content_closed,
                   ml_vars, known_blobs_snapshot, mon_vars, env_vars,
                   hist_vars>>

\* transient error: blob_error(content_type, url) for the message loop
DiscGetError ==
    /\ blobs_ch # <<>>
    /\ Cardinality(disc) < Threads
    /\ faults_left > 0
    /\ faults_left' = faults_left - 1
    /\ blob_error_ch' = Send(blob_error_ch, Head(blobs_ch), MlAlive)
    /\ blobs_ch' = Tail(blobs_ch)
    /\ UNCHANGED <<config_vars, tenant_vars, kb_hist, file_path_ok, unit_vars, phase, bounded_vars, peers, content_ch, content_error_ch, result_ch,
                   status_ch, stats_ch, kill_ch, content_closed, ml_vars,
                   disc_vars, mon_vars, now, hist_vars>>

\* rate limit: BeingThrottled, and the URL goes back to the input channel
DiscGetThrottled ==
    /\ blobs_ch # <<>>
    /\ Cardinality(disc) < Threads
    /\ faults_left > 0
    /\ faults_left' = faults_left - 1
    /\ status_ch' = Send(status_ch, "BeingThrottled", MlAlive)
    /\ blobs_ch' = Append(Tail(blobs_ch), Head(blobs_ch))
    /\ UNCHANGED <<config_vars, tenant_vars, kb_hist, file_path_ok, unit_vars, phase, bounded_vars, peers, blob_error_ch, content_ch, content_error_ch,
                   result_ch, stats_ch, kill_ch, content_closed, ml_vars,
                   disc_vars, mon_vars, now, hist_vars>>

DiscKnown(id) == id \in DOMAIN known_blobs_snapshot

DiscSkipKnown(t) ==
    /\ t \in disc /\ t.todo # <<>> /\ ~t.sent
    /\ DiscKnown(Head(t.todo))
    /\ disc' = (disc \ {t}) \cup {[t EXCEPT !.todo = Tail(@)]}
    /\ UNCHANGED <<config_vars, tenant_vars, kb_hist, file_path_ok, unit_vars, phase, bounded_vars, peers, chan_vars, ml_vars, known_blobs_snapshot,
                   mon_vars, env_vars, hist_vars>>

DiscForward(t) ==
    /\ t \in disc /\ t.todo # <<>> /\ ~t.sent
    /\ ~DiscKnown(Head(t.todo))
    /\ content_ch' = Send(content_ch,
                          ContentToRetrieve(Head(t.todo), t.content_type),
                          ~content_closed)
    /\ disc' = (disc \ {t}) \cup {[t EXCEPT !.sent = TRUE]}
    /\ known_fetch' = (known_fetch
                       \/ KbContainsResult(known_blobs, Head(t.todo), UtcNow))
    /\ UNCHANGED <<config_vars, tenant_vars, kb_hist, file_path_ok, unit_vars, phase, bounded_vars, peers, blobs_ch, blob_error_ch, content_error_ch,
                   result_ch, status_ch, stats_ch, kill_ch, content_closed,
                   ml_vars, known_blobs_snapshot, mon_vars, env_vars,
                   resends, giveups, fetches, handled>>

DiscFound(t) ==
    /\ t \in disc /\ t.sent
    /\ status_ch' = Send(status_ch, "FoundNewContentBlob", MlAlive)
    /\ disc' = (disc \ {t}) \cup {[t EXCEPT !.sent = FALSE, !.todo = Tail(@)]}
    /\ UNCHANGED <<config_vars, tenant_vars, kb_hist, file_path_ok, unit_vars, phase, bounded_vars, peers, blobs_ch, blob_error_ch, content_ch,
                   content_error_ch, result_ch, stats_ch, kill_ch,
                   content_closed, ml_vars, known_blobs_snapshot, mon_vars,
                   env_vars, hist_vars>>

DiscPaging(t) ==
    /\ t \in disc /\ t.todo = <<>>
    /\ disc' = disc \ {t}
    /\ IF NextPageUri(t.url) # ""
       THEN /\ blobs_ch' = Append(blobs_ch,
                                  <<t.content_type, NextPageUri(t.url)>>)
            /\ UNCHANGED status_ch
       ELSE /\ status_ch' = Send(status_ch, "FinishedContentBlobs", MlAlive)
            /\ UNCHANGED blobs_ch
    /\ UNCHANGED <<config_vars, tenant_vars, kb_hist, file_path_ok, unit_vars, phase, bounded_vars, peers, blob_error_ch, content_ch, content_error_ch,
                   result_ch, stats_ch, kill_ch, content_closed, ml_vars,
                   known_blobs_snapshot, mon_vars, env_vars, hist_vars>>

\* ----------------------------------------------------------- blob fetcher
\* get_content_async (spec.md 4.6): one GET per ContentToRetrieve taken from
\* the content channel.  Its config holds result_tx, content_error_tx and
\* status_tx only (collector.rs 408-416), so a blob goes back to the content
\* channel through content_error and the message loop.
FetchCount == [fetches EXCEPT ![Head(content_ch).content_id] = @ + 1]

FetchOk ==
    /\ content_ch # <<>>
    /\ result_ch' = Send(result_ch,
                         <<ContentBody(Head(content_ch).content_id),
                           Head(content_ch)>>,
                         CollectorAlive)
    /\ status_ch' = Send(status_ch, "RetrievedContentBlob", MlAlive)
    /\ content_ch' = Tail(content_ch)
    /\ fetches' = FetchCount
    /\ UNCHANGED <<config_vars, tenant_vars, kb_hist, file_path_ok, unit_vars, phase, bounded_vars, peers, blobs_ch, blob_error_ch, content_error_ch,
                   stats_ch, kill_ch, content_closed, ml_vars, disc_vars,
                   mon_vars, env_vars, resends, giveups, handled,
                   known_fetch>>

FetchError ==
    /\ content_ch # <<>>
    /\ faults_left > 0
    /\ faults_left' = faults_left - 1
    /\ content_error_ch' = Send(content_error_ch, Head(content_ch), MlAlive)
    /\ content_ch' = Tail(content_ch)
    /\ fetches' = FetchCount
    /\ UNCHANGED <<config_vars, tenant_vars, kb_hist, file_path_ok, unit_vars, phase, bounded_vars, peers, blobs_ch, blob_error_ch, result_ch,
                   status_ch, stats_ch, kill_ch, content_closed, ml_vars,
                   disc_vars, mon_vars, now, resends, giveups, handled,
                   known_fetch>>

FetchThrottled ==
    /\ content_ch # <<>>
    /\ faults_left > 0
    /\ faults_left' = faults_left - 1
    /\ status_ch' = Send(status_ch, "BeingThrottled", MlAlive)
    /\ content_error_ch' = Send(content_error_ch, Head(content_ch), MlAlive)
    /\ content_ch' = Tail(content_ch)
    /\ fetches' = FetchCount
    /\ UNCHANGED <<config_vars, tenant_vars, kb_hist, file_path_ok, unit_vars, phase, bounded_vars, peers, blobs_ch, blob_error_ch, result_ch,
                   stats_ch, kill_ch, content_closed, ml_vars, disc_vars,
                   mon_vars, now, resends, giveups, handled, known_fetch>>

\* a 200 response whose body is not a JSON array
FetchNotJson ==
    /\ content_ch # <<>>
    /\ faults_left > 0
    /\ faults_left' = faults_left - 1
    /\ result_ch' = Send(result_ch, <<NotJsonBody, Head(content_ch)>>,
                         CollectorAlive)
    /\ status_ch' = Send(status_ch, "RetrievedContentBlob", MlAlive)
    /\ content_ch' = Tail(content_ch)
    /\ fetches' = FetchCount
    /\ UNCHANGED <<config_vars, tenant_vars, kb_hist, file_path_ok, unit_vars, phase, bounded_vars, peers, blobs_ch, blob_error_ch, content_error_ch,
                   stats_ch, kill_ch, content_closed, ml_vars, disc_vars,
                   mon_vars, now, resends, giveups, handled, known_fetch>>

\* response over curl_max_size: permanent, the blob is abandoned
FetchTooLarge ==
    /\ content_ch # <<>>
    /\ faults_left > 0
    /\ faults_left' = faults_left - 1
    /\ status_ch' = Send(status_ch, "ErrorContentBlob", MlAlive)
    /\ content_ch' = Tail(content_ch)
    /\ fetches' = FetchCount
    /\ UNCHANGED <<config_vars, tenant_vars, kb_hist, file_path_ok, unit_vars, phase, bounded_vars, peers, blobs_ch, blob_error_ch, content_error_ch,
                   result_ch, stats_ch, kill_ch, content_closed, ml_vars,
                   disc_vars, mon_vars, now, resends, giveups, handled,
                   known_fetch>>

\* ---------------------------------------------------------------- Collector
\* Caches::full (spec.md 4.2): the total count has reached the capacity
CachesFull(c) == Len(c) >= CacheSize

\* lines 307-318: the cache is swapped for an empty one and sent to the one
\* interface, or a clone of it to each of several
Output(c, snk) == [i \in DOMAIN snk |-> snk[i] \o c]

\* The file interface is the first of the list (lines 68-76).  Its
\* send_logs_unified opens the path before it writes a record and panics
\* when the open fails (file_interface.rs 82-86): no interface has received
\* the drained cache then, and the panic unwinds through output, monitor
\* and the tenant's task.
OutputPanicked(c, snk) == snk

\* output() on the Collector's fields: the cache is swapped for an empty
\* one, then sent
Flush(col) ==
    IF file_path_ok
    THEN [col EXCEPT !.cache = <<>>, !.sinks = Output(col.cache, col.sinks)]
    ELSE [col EXCEPT !.cache = <<>>,
                     !.sinks = OutputPanicked(col.cache, col.sinks),
                     !.panicked = TRUE]

\* lines 261-284, on the Collector's fields [cache, saved, sinks, handled,
\* panicked]; nothing runs after a panic
handle_log(col, log, content_type) ==
    IF col.panicked \/ ~PassesFilters(log, content_type) THEN col
    ELSE LET rec == WithOriginFeed(log, content_type)
             put == [col EXCEPT !.cache = Append(@, rec), !.saved = @ + 1,
                                !.handled = Append(@, rec)]
         IN IF CachesFull(put.cache) THEN Flush(put) ELSE put

RECURSIVE HandleLogs(_, _, _)
HandleLogs(col, logs, content_type) ==
    IF logs = <<>> THEN col
    ELSE HandleLogs(handle_log(col, Head(logs), content_type), Tail(logs),
                    content_type)

CollectorFields ==
    [cache |-> cache, saved |-> saved, sinks |-> sinks, handled |-> handled,
     panicked |-> FALSE]

\* handle_content with the insert made only for a body that parsed
handle_contentAfterParse(msg, content) ==
    /\ known_blobs' = IF msg.json
                      THEN KbInsert(known_blobs, content.content_id,
                                    content.expiration, UtcNow)
                      ELSE known_blobs
    /\ LET col == IF msg.json
                  THEN HandleLogs(CollectorFields, msg.logs,
                                  content.content_type)
                  ELSE CollectorFields
       IN /\ cache' = col.cache
          /\ saved' = col.saved
          /\ sinks' = col.sinks
          /\ handled' = col.handled
          /\ mon_pc' = IF col.panicked THEN "panicked" ELSE "poll"

\* lines 245-259: the id goes into the shared cache, then the body is parsed
handle_content(msg, content) ==
    /\ known_blobs' = KbInsert(known_blobs, content.content_id,
                               content.expiration, UtcNow)
    /\ LET col == IF msg.json
                  THEN HandleLogs(CollectorFields, msg.logs,
                                  content.content_type)
                  ELSE CollectorFields
       IN /\ cache' = col.cache
          /\ saved' = col.saved
          /\ sinks' = col.sinks
          /\ handled' = col.handled
          /\ mon_pc' = IF col.panicked THEN "panicked" ELSE "poll"

\* a timeout test that takes a timeout of one minute for none
TimedOutAboveOne ==
    global_timeout > 1 /\ (now \div TICKS_PER_MINUTE) >= global_timeout

\* lines 161-178
TimedOut ==
    global_timeout > 0 /\ (now \div TICKS_PER_MINUTE) >= global_timeout

MonTimeout ==
    /\ mon_pc = "poll"
    /\ TimedOut
    /\ kill_ch' = Send(kill_ch, TRUE, MlAlive)
    /\ mon_pc' = "kill_wait"
    /\ UNCHANGED <<config_vars, tenant_vars, kb_hist, file_path_ok, unit_vars, phase, bounded_vars, peers, blobs_ch, blob_error_ch, content_ch,
                   content_error_ch, result_ch, status_ch, stats_ch,
                   content_closed, ml_vars, disc_vars, known_blobs, cache,
                   saved, sinks, mon_exit, known_blobs_file, bookmark,
                   env_vars, hist_vars>>

\* line 176-177: the 2 s sleep, then break
MonKillWait ==
    /\ mon_pc = "kill_wait"
    /\ mon_pc' = "drain"
    /\ mon_exit' = "timeout"
    /\ UNCHANGED <<config_vars, tenant_vars, kb_hist, file_path_ok, unit_vars, phase, bounded_vars, peers, chan_vars, ml_vars, disc_vars, known_blobs,
                   cache, saved, sinks, known_blobs_file, bookmark, env_vars,
                   hist_vars>>

\* One pass of monitor's loop body below the timeout test (lines 180-190):
\* check_stats, which ends the loop when stats are there, else check_results
\* and the 10 ms sleep
MonLoop ==
    /\ mon_pc = "poll"
    /\ ~TimedOut
    /\ IF stats_ch # <<>>
       THEN /\ stats_ch' = Tail(stats_ch)
            /\ LET col == Flush(CollectorFields)
               IN /\ sinks' = col.sinks
                  /\ cache' = col.cache
                  /\ mon_exit' = IF col.panicked THEN mon_exit ELSE "stats"
                  /\ mon_pc' = IF col.panicked THEN "panicked" ELSE "drain"
            /\ UNCHANGED <<result_ch, known_blobs, saved, handled>>
       ELSE /\ UNCHANGED <<stats_ch, mon_exit>>
            /\ IF result_ch # <<>>
               THEN /\ result_ch' = Tail(result_ch)
                    /\ handle_content(Head(result_ch)[1], Head(result_ch)[2])
               ELSE /\ mon_pc' = "poll"
                    /\ UNCHANGED <<result_ch, known_blobs, cache, saved,
                                   sinks, handled>>
    /\ UNCHANGED <<config_vars, tenant_vars, kb_hist, file_path_ok, unit_vars, phase, bounded_vars, peers, blobs_ch, blob_error_ch, content_ch,
                   content_error_ch, status_ch, kill_ch, content_closed,
                   ml_vars, disc_vars, known_blobs_file, bookmark, env_vars,
                   resends, giveups, fetches, known_fetch>>

\* the Collector's fields after check_all_results (lines 236-243) has handled
\* every queued result
RECURSIVE HandleAll(_, _)
HandleAll(col, results) ==
    IF results = <<>> \/ col.panicked THEN col
    ELSE LET msg == Head(results)[1]
             content == Head(results)[2]
             kb == KbInsert(col.known_blobs, content.content_id,
                            content.expiration, UtcNow)
             logs == IF msg.json
                     THEN HandleLogs(col, msg.logs, content.content_type)
                     ELSE col
         IN HandleAll([logs EXCEPT !.known_blobs = kb], Tail(results))

\* lines 196-225: end_run saves the known blobs (save_to_file sweeps the
\* cache first) and, in only-future-events mode, rewrites the bookmarks
\* an end_run that rewrites the state files in either mode
EndRunBookmarkAlways ==
    SaveForAll(bookmark, subscriptions, StateFile(UtcNow, UtcNow, FALSE))

EndRunBookmark ==
    IF only_future_events
    THEN SaveForAll(bookmark, subscriptions, StateFile(UtcNow, UtcNow, FALSE))
    ELSE bookmark

\* lines 192-193: check_all_results, then end_run
MonFinish ==
    /\ mon_pc = "drain"
    /\ LET col == HandleAll([cache |-> cache, saved |-> saved,
                             sinks |-> sinks, handled |-> handled,
                             panicked |-> FALSE,
                             known_blobs |-> known_blobs], result_ch)
       IN /\ cache' = col.cache
          /\ saved' = col.saved
          /\ sinks' = col.sinks
          /\ handled' = col.handled
          /\ IF col.panicked
             THEN /\ known_blobs' = col.known_blobs
                  /\ UNCHANGED <<known_blobs_file, bookmark>>
                  /\ mon_pc' = "panicked"
             ELSE /\ known_blobs' = KbCleanupExpired(col.known_blobs, UtcNow)
                  /\ known_blobs_file' = KbSaveToFile(col.known_blobs, UtcNow)
                  /\ bookmark' = EndRunBookmark
                  /\ mon_pc' = "done"
    /\ result_ch' = <<>>
    /\ UNCHANGED <<config_vars, tenant_vars, kb_hist, file_path_ok, unit_vars, phase, bounded_vars, peers, blobs_ch, blob_error_ch, content_ch,
                   content_error_ch, status_ch, stats_ch, kill_ch,
                   content_closed, ml_vars, disc_vars, mon_exit, env_vars,
                   resends, giveups, fetches, known_fetch>>

\* -------------------------------------------------------------- environment
Tick ==
    /\ now < MaxNow
    /\ now' = now + 1
    /\ phase' = 0
    /\ UNCHANGED <<config_vars, tenant_vars, kb_hist, file_path_ok, unit_vars, bounded_vars, peers, chan_vars, ml_vars, disc_vars, mon_vars,
                   faults_left, hist_vars>>

\* ------------------------------------------------------- the tenant's task
\* main.rs line 81
GetStartTime ==
    /\ run_pc = "start"
    /\ LET r == get_start_time_from_state(only_future_events, subscriptions,
                                          bookmark, UtcNow)
       IN /\ start_from' = r.start
          /\ bookmark' = r.files
    /\ run_pc' = "runs"
    /\ UNCHANGED <<config_vars, subscriptions, hours_to_collect, runs, run_no,
                   kb_hist, file_path_ok, unit_vars, phase, bounded_vars, peers,
                   chan_vars, ml_vars, disc_vars, known_blobs, cache, saved,
                   sinks, mon_pc, mon_exit, known_blobs_file, env_vars,
                   hist_vars>>

\* main.rs line 85: the panic ends the tenant's task
GetNeededRuns ==
    /\ run_pc = "runs"
    /\ IF TooManyHours(start_from, hours_to_collect)
       THEN /\ run_pc' = "panicked"
            /\ UNCHANGED runs
       ELSE /\ runs' = get_needed_runs_from(start_from, hours_to_collect,
                                            subscriptions, UtcNow)
            /\ run_pc' = "new"
    /\ UNCHANGED <<config_vars, subscriptions, hours_to_collect, start_from,
                   run_no, kb_hist, file_path_ok, unit_vars, phase, bounded_vars, peers, chan_vars, ml_vars, disc_vars, mon_vars, env_vars,
                   hist_vars>>

\* main.rs line 87, Collector::new: the known_blobs file is loaded, the
\* channels are created and the three tasks spawned
NewCollector ==
    /\ run_pc = "new"
    /\ run_pc' = "collecting"
    /\ urls' = create_base_urls(subscriptions, runs)
    /\ blobs_ch' = <<>> /\ blob_error_ch' = <<>> /\ content_ch' = <<>>
    /\ content_error_ch' = <<>> /\ result_ch' = <<>> /\ status_ch' = <<>>
    /\ stats_ch' = <<>> /\ kill_ch' = <<>>
    /\ content_closed' = FALSE
    /\ state' = RunStateDefault
    /\ rate_limit_backoff_started' = NoTime
    /\ retry_map' = <<>>
    /\ ml_pc' = "seed"
    /\ disc' = {}
    /\ known_blobs' = KbLoadFromFile(known_blobs_file, UtcNow)
    /\ known_blobs_snapshot' =
           KbToHashmap(KbLoadFromFile(known_blobs_file, UtcNow))
    /\ cache' = <<>>
    /\ saved' = 0
    /\ sinks' = [i \in 1..NumInterfaces |-> <<>>]
    /\ mon_pc' = "poll"
    /\ mon_exit' = "none"
    /\ resends' = [u \in AllUrls |-> 0]
    /\ giveups' = [u \in AllUrls |-> 0]
    /\ fetches' = [b \in ContentIds |-> 0]
    /\ handled' = <<>>
    /\ known_fetch' = FALSE
    /\ UNCHANGED <<retries, global_timeout, build, only_future_events,
                   subscriptions, hours_to_collect, start_from, runs, run_no,
                   kb_hist, file_path_ok, unit_vars, phase, bounded_vars, peers, known_blobs_file, bookmark, env_vars>>

\* main.rs lines 51-55: the tenant's task has ended (monitor returned, or
\* the task panicked); the daemon loop sleeps and collects again
NextRun ==
    /\ \/ run_pc = "collecting" /\ mon_pc \in {"done", "panicked"}
       \/ run_pc = "panicked"
    /\ run_no < MaxRuns
    /\ run_no' = run_no + 1
    /\ run_pc' = "start"
    /\ UNCHANGED <<config_vars, subscriptions, hours_to_collect, start_from,
                   runs, kb_hist, file_path_ok, unit_vars, phase, bounded_vars, peers, chan_vars, ml_vars, disc_vars, mon_vars, env_vars,
                   hist_vars>>

\* the path of the file sink stops being openable (its directory removed,
\* permissions changed): OpenOptions::open fails from now on
FilePathLost ==
    /\ file_path_ok
    /\ file_path_ok' = FALSE
    /\ UNCHANGED <<config_vars, tenant_vars, chan_vars, ml_vars, disc_vars,
                   mon_vars, env_vars, hist_vars, kb_hist, unit_vars, phase,
                   bounded_vars, peers>>

MessageLoop == MlSeed \/ MlLoop \/ MlSendStats

Discoverer ==
    \/ DiscGetOk
    \/ \E t \in disc : DiscSkipKnown(t)
    \/ \E t \in disc : DiscForward(t)
    \/ \E t \in disc : DiscFound(t)
    \/ \E t \in disc : DiscPaging(t)

Fetcher == FetchOk

Failures ==
    \/ DiscGetError \/ DiscGetThrottled
    \/ FetchError \/ FetchThrottled \/ FetchNotJson \/ FetchTooLarge

Monitor == MonLoop \/ MonFinish

GlobalTimeout == MonTimeout \/ MonKillWait

\* runs of one feed with failing requests, the clock standing still
Next == MessageLoop \/ Discoverer \/ Fetcher \/ Failures \/ Monitor

Spec == Init /\ [][Next]_vars

\* runs that the global timeout can end: the clock ticks
InitTimed == InitWith({ExchangeUrls}, {1}, {1}, Builds, 1)
NextTimed == Next \/ GlobalTimeout \/ Tick
SpecTimed == InitTimed /\ [][NextTimed]_vars

\* runs of both feeds, every request answered
InitBoth == InitWith({BothUrls}, {1}, {0}, Builds, 0)
NextBoth == MessageLoop \/ Discoverer \/ Fetcher \/ Monitor
SpecBoth == InitBoth /\ [][NextBoth]_vars

\* runs in which every request is answered and no timeout is configured,
\* each task scheduled fairly by the executor
InitLive == InitWith({ExchangeUrls, GeneralUrls}, {1}, {0}, Builds, 0)
NextLive == MessageLoop \/ Discoverer \/ Fetcher \/ Monitor
LiveSpec ==
    /\ InitLive /\ [][NextLive]_vars
    /\ WF_vars(MessageLoop) /\ WF_vars(Discoverer) /\ WF_vars(Fetcher)
    /\ WF_vars(Monitor)

\* runs with or without a global timeout in which nothing obliges the
\* message loop or the workers to make progress (they may stall); only the
\* monitor task and the clock are scheduled fairly
InitStall == InitWith({ExchangeUrls}, {1}, {0, 1}, Builds, 1)
StallSpec ==
    /\ InitStall /\ [][NextTimed]_vars
    /\ WF_vars(Monitor) /\ WF_vars(GlobalTimeout) /\ WF_vars(Tick)

\* Daemon runs of one tenant from the start of its task: both modes, with
\* and without state files, one or two subscriptions, no provider faults.
AllSaved(subs, rec) == SaveForAll([ct \in ContentTypes |-> NoFile], subs, rec)

InitTenant(future_choices, hours_choices, subs_choices, ages, caps) ==
    /\ urls = <<>>
    /\ retries = 1
    /\ global_timeout = 0
    /\ build = "release"
    /\ only_future_events \in future_choices
    /\ subscriptions \in subs_choices
    /\ hours_to_collect \in hours_choices
    /\ start_from = NoTime
    /\ runs = <<>>
    /\ run_pc = "start"
    /\ run_no = 1
    /\ blobs_ch = <<>> /\ blob_error_ch = <<>> /\ content_ch = <<>>
    /\ content_error_ch = <<>> /\ result_ch = <<>> /\ status_ch = <<>>
    /\ stats_ch = <<>> /\ kill_ch = <<>>
    /\ content_closed = FALSE
    /\ state = RunStateDefault
    /\ rate_limit_backoff_started = NoTime
    /\ retry_map = <<>>
    /\ ml_pc = "idle"
    /\ disc = {}
    /\ known_blobs \in {KbWithCapacity(max_entries) : max_entries \in caps}
    /\ known_blobs_snapshot = KbToHashmap(known_blobs)
    /\ cache = <<>>
    /\ saved = 0
    /\ sinks = [i \in 1..NumInterfaces |-> <<>>]
    /\ mon_pc = "idle"
    /\ mon_exit = "none"
    /\ known_blobs_file = StartupKnownBlobsFile
    /\ \/ bookmark = [ct \in ContentTypes |-> NoFile]
       \/ \E age \in ages,
             saved_subs \in SUBSET {subscriptions[i] : i \in DOMAIN subscriptions} :
             /\ saved_subs # {}
             /\ bookmark =
                  [ct \in ContentTypes |->
                     IF ct \in saved_subs
                     THEN StateFile(AtTick(0) - age * Hour,
                                    AtTick(0) - age * Hour, FALSE)
                     ELSE NoFile]
    /\ now = 0
    /\ phase = 0
    /\ ml_send = NoSend
    /\ in_hand = {}
    /\ peers = PeersSpawned
    /\ faults_left = 0
    /\ file_path_ok = TRUE
    /\ resends = [u \in AllUrls |-> 0]
    /\ giveups = [u \in AllUrls |-> 0]
    /\ fetches = [b \in ContentIds |-> 0]
    /\ handled = <<>>
    /\ known_fetch = FALSE
    /\ kb_ret = NoCall
    /\ kb_recent = <<>>
    /\ InitStateManager

TenantTask == GetStartTime \/ GetNeededRuns \/ NewCollector \/ NextRun

InitRuns ==
    InitTenant(BOOLEAN, {1, 25},
               {<<"Audit.General">>, <<"Audit.General", "DLP.All">>},
               {1}, {DEFAULT_MAX_ENTRIES})
NextRuns ==
    TenantTask \/ MessageLoop \/ Discoverer \/ Fetcher \/ Monitor \/ Tick
RunsSpec == InitRuns /\ [][NextRuns]_vars

\* get_start_time_from_state and get_needed_runs_from alone, over more
\* configurations and state files
InitWindows ==
    InitTenant(BOOLEAN, {0, 1, 24, 25, 72, 168, 169},
               {<<"Audit.General">>, <<"Audit.Exchange", "Audit.General">>},
               {0, 1, 25, 169}, {DEFAULT_MAX_ENTRIES})
NextWindows == GetStartTime \/ GetNeededRuns \/ Tick
WindowSpec == InitWindows /\ [][NextWindows]_vars

\* The KnownBlobsCache on its own: any sequence of calls of its methods, on
\* caches of small capacity, while the clock advances.
MaxInserts == 4
KbCaps == {1, 3}
KbIds == {"b0", "b1", "b2", "b,3"}
\* expiration strings: half a millisecond after tick 1, the instant of
\* tick 2, the full second before tick 3, and text that is no date
KbExpirations ==
    {ExpString("frac_z", AtTick(1) + 1),
     ExpString("frac_z", AtTick(2)),
     ExpString("z", FormatSeconds(AtTick(3))),
     Unparseable}

\* id was inserted or found: it becomes the most recently used; ids that
\* left the cache leave the order
Used(recent, id) == SelectSeq(recent, LAMBDA x : x # id) \o <<id>>
Held(recent, kb) == SelectSeq(recent, LAMBDA x : LruHas(kb.cache, x))

KbFrame ==
    UNCHANGED <<config_vars, tenant_vars, chan_vars, ml_vars, disc_vars,
                cache, saved, sinks, mon_pc, mon_exit, bookmark,
                faults_left, file_path_ok, unit_vars, phase, bounded_vars, peers, hist_vars>>

KbOpInsert(id, expiration_str) ==
    /\ known_blobs.insert_count < MaxInserts
    /\ known_blobs' = KbInsert(known_blobs, id, expiration_str, UtcNow)
    /\ kb_ret' = [Call("insert", id, known_blobs, FALSE)
                     EXCEPT !.exp = expiration_str]
    /\ kb_recent' = Held(IF known_blobs' # known_blobs
                         THEN Used(kb_recent, id) ELSE kb_recent,
                         known_blobs')
    /\ UNCHANGED <<known_blobs_file, now>>
    /\ KbFrame

KbOpContains(id) ==
    /\ known_blobs' = KbContains(known_blobs, id, UtcNow)
    /\ kb_ret' = Call("contains", id, known_blobs,
                      KbContainsResult(known_blobs, id, UtcNow))
    /\ kb_recent' = Held(IF KbContainsResult(known_blobs, id, UtcNow)
                         THEN Used(kb_recent, id) ELSE kb_recent,
                         known_blobs')
    /\ UNCHANGED <<known_blobs_file, now>>
    /\ KbFrame

KbOpCleanup ==
    /\ known_blobs' = KbCleanupExpired(known_blobs, UtcNow)
    /\ kb_ret' = Call("cleanup", "", known_blobs, FALSE)
    /\ kb_recent' = Held(kb_recent, known_blobs')
    /\ UNCHANGED <<known_blobs_file, now>>
    /\ KbFrame

KbOpSave ==
    /\ known_blobs' = KbCleanupExpired(known_blobs, UtcNow)
    /\ known_blobs_file' = KbSaveToFile(known_blobs, UtcNow)
    /\ kb_ret' = Call("save", "", known_blobs, FALSE)
    /\ kb_recent' = Held(kb_recent, known_blobs')
    /\ UNCHANGED now
    /\ KbFrame

\* load_from_file makes a new cache; its entries were put in file order
KbOpLoad ==
    /\ known_blobs' = KbLoadFromFile(known_blobs_file, UtcNow)
    /\ kb_ret' = Call("load", "", known_blobs, FALSE)
    /\ kb_recent' = [i \in 1..Len(known_blobs'.cache) |->
                        known_blobs'.cache[Len(known_blobs'.cache) + 1 - i].k]
    /\ UNCHANGED <<known_blobs_file, now>>
    /\ KbFrame

KbTick ==
    /\ now < MaxNow
    /\ now' = now + 1
    /\ UNCHANGED <<known_blobs, known_blobs_file, kb_hist>>
    /\ KbFrame

\* insert, contains and cleanup_expired on a cache of capacity 1 or 3
InitCache ==
    InitTenant({FALSE}, {WINDOW_HOURS}, {<<"Audit.General">>}, {1}, KbCaps)
NextCache ==
    \/ \E id \in KbIds, e \in KbExpirations : KbOpInsert(id, e)
    \/ \E id \in KbIds : KbOpContains(id)
    \/ KbOpCleanup
    \/ KbTick
CacheSpec == InitCache /\ [][NextCache]_vars

\* insert, save_to_file and load_from_file
FileIds == {"b1", "b,3"}
InitFile ==
    InitTenant({FALSE}, {WINDOW_HOURS}, {<<"Audit.General">>}, {1}, {3})
NextFile ==
    \/ \E id \in FileIds, e \in KbExpirations : KbOpInsert(id, e)
    \/ KbOpSave
    \/ KbOpLoad
    \/ KbTick
FileSpec == InitFile /\ [][NextFile]_vars

\* The StateManager on its own: save_state, load_state and is_first_run
\* called in any order for any pair, writes that fail, files that are
\* damaged from outside.
SmFrame ==
    UNCHANGED <<config_vars, tenant_vars, chan_vars, ml_vars, disc_vars,
                mon_vars, env_vars, hist_vars, kb_hist, file_path_ok,
                rt_ret, phase, bounded_vars, peers>>

\* the states the program saves: at tenant start and at the end of a run
SavedStates ==
    {StateFile(UtcNow - Second, UtcNow, TRUE),
     StateFile(UtcNow + 1, UtcNow + 1, FALSE)}
WriteOutcomes == {"written", "failed", "truncated"}

SmSave(tenant_id, subscription, st, outcome) ==
    /\ state_files' =
          save_state(state_files, tenant_id, subscription, st, outcome)
    /\ sm_ret' = SmCall("save", tenant_id, subscription, st,
                        outcome = "written")
    /\ sm_saved' = IF outcome = "written"
                   THEN [sm_saved EXCEPT ![<<tenant_id, subscription>>] = st]
                   ELSE sm_saved
    /\ SmFrame

SmLoad(tenant_id, subscription) ==
    /\ sm_ret' = SmCall("load", tenant_id, subscription,
                        load_state(state_files, tenant_id, subscription),
                        FALSE)
    /\ UNCHANGED <<state_files, sm_saved>>
    /\ SmFrame

SmIsFirstRun(tenant_id, subscription) ==
    /\ sm_ret' = SmCall("is_first_run", tenant_id, subscription, NoFile,
                        is_first_run(state_files, tenant_id, subscription))
    /\ UNCHANGED <<state_files, sm_saved>>
    /\ SmFrame

\* a state file is overwritten from outside the program
FileDamaged(path, content) ==
    /\ state_files[path].kind = "state"
    /\ state_files' = [state_files EXCEPT ![path] = content]
    /\ sm_ret' = NoSmCall
    /\ UNCHANGED sm_saved
    /\ SmFrame

\* The RecordTypeFilter on its own: should_include_log called for each
\* subscription of the API and one the filter does not know, with the
\* record types get_recordtype_description names and two it does not.
FilterSubscriptions ==
    {"Audit.General", "Audit.AzureActiveDirectory", "Audit.Exchange",
     "Audit.SharePoint", "DLP.All", "Audit.Other"}
RecordTypes ==
    {1, 2, 3, 4, 6, 8, 11, 13, 14, 15, 19, 20, 25, 28, 30, 32, 40, 44, 50,
     62, 63, 64, 65, 70} \cup {0, 99}

ShouldIncludeLog(subscription, record_type) ==
    /\ rt_ret' = [op |-> "should_include_log",
                  subscription |-> subscription,
                  record_type |-> record_type,
                  ret |-> should_include_log(subscription, record_type)]
    /\ UNCHANGED <<state_files, sm_ret, sm_saved>>
    /\ UNCHANGED <<config_vars, tenant_vars, chan_vars, ml_vars, disc_vars,
                   mon_vars, env_vars, hist_vars, kb_hist, file_path_ok,
                   phase, bounded_vars, peers>>

InitRecordType ==
    InitTenant({FALSE}, {WINDOW_HOURS}, {<<"Audit.General">>}, {1},
               {DEFAULT_MAX_ENTRIES})
NextRecordType ==
    \E sub \in FilterSubscriptions, rt \in RecordTypes :
        ShouldIncludeLog(sub, rt)
RecordTypeSpec == InitRecordType /\ [][NextRecordType]_vars

InitState ==
    InitTenant({TRUE}, {WINDOW_HOURS}, {<<"Audit.General">>}, {1},
               {DEFAULT_MAX_ENTRIES})
NextState ==
    \/ \E p \in StatePairs, st \in SavedStates, o \in WriteOutcomes :
          SmSave(p[1], p[2], st, o)
    \/ \E p \in StatePairs : SmLoad(p[1], p[2])
    \/ \E p \in StatePairs : SmIsFirstRun(p[1], p[2])
    \/ \E path \in StatePaths, c \in {NotJson, NotUtf8} :
          FileDamaged(path, c)
StateSpec == InitState /\ [][NextState]_vars

\* The Collector's handling of results on its own: the fetcher delivers
\* bodies of any of the records below for a blob of any content type, and
\* monitor takes them off the result channel.
MaxResults == 3
FilterRecords ==
    {[Operation |-> "Send", a |-> 1],
     [Operation |-> "Read", a |-> 2],
     [a |-> 1],
     [Workload |-> "Exchange"],
     [Operation |-> "Send", Workload |-> "SharePoint"],
     [Operation |-> "Send", Workload |-> "Exchange"]}
SendThenRead ==
    << [Operation |-> "Send", a |-> 1], [Operation |-> "Read", a |-> 2] >>
FilterBodies ==
    {Body(TRUE, <<r>>) : r \in FilterRecords} \cup {Body(TRUE, SendThenRead)}

\* get_content_async: the body of a fetched blob is sent on result_tx
FetchResult(msg, content_type) ==
    /\ result_ch = <<>>
    /\ fetches["b1"] < MaxResults
    /\ result_ch' = Append(result_ch,
                           <<msg, ContentToRetrieve("b1", content_type)>>)
    /\ fetches' = [fetches EXCEPT !["b1"] = @ + 1]
    /\ UNCHANGED <<config_vars, tenant_vars, kb_hist, file_path_ok, unit_vars, phase, bounded_vars, peers, blobs_ch, blob_error_ch,
                   content_ch, content_error_ch, status_ch, stats_ch, kill_ch,
                   content_closed, ml_vars, disc_vars, mon_vars, env_vars,
                   resends, giveups, handled, known_fetch>>

InitFilter == InitWith({ExchangeUrls}, {1}, {0}, {"release"}, 0)
NextFilter ==
    \/ \E msg \in FilterBodies, ct \in ContentTypes : FetchResult(msg, ct)
    \/ MonLoop
FilterSpec == InitFilter /\ [][NextFilter]_vars

\* runs of one feed, every request answered, in which the path of the file
\* sink may stop being openable at any moment
InitSink == InitWith({ExchangeUrls, GeneralUrls}, {1}, {0}, {"release"}, 0)
NextSink ==
    MessageLoop \/ Discoverer \/ Fetcher \/ Monitor \/ FilePathLost
SinkSpec == InitSink /\ [][NextSink]_vars

\* ------------------------------------------------------------ properties

\* the run has ended the way monitor's check_stats path ends it
RunEndedByStats == ml_pc = "done" /\ mon_pc = "done" /\ mon_exit = "stats"

\* C1: in a run with a seeded URL in which every request is answered, under
\* fair scheduling the message loop eventually leaves its loop and sends the
\* final RunStats once, after which monitor terminates by receiving them.
C1_EventuallyStats == <>RunEndedByStats

\* at this step an error arrived for a URL whose retries_left was 0
GaveUpStep == \E u \in AllUrls : giveups'[u] = giveups[u] + 1

\* C2: when a give-up (an error for a URL whose retries_left is 0) brings
\* both awaiting counters to zero, the message loop leaves its loop in that
\* pass, without a kill signal.
C2_GiveUpAtZeroExits ==
    [][(GaveUpStep /\ check_done(state')) => ml_pc' # "loop"]_vars

\* the number of times x occurs in a sequence
Occurrences(seq, x) == Cardinality({i \in DOMAIN seq : seq[i] = x})

\* two sequences hold the same multiset of elements
SameMultiset(a, b) ==
    \A x \in {a[i] : i \in DOMAIN a} \cup {b[i] : i \in DOMAIN b} :
        Occurrences(a, x) = Occurrences(b, x)

\* C3: when a run has ended by the Collector receiving stats, the multiset
\* of records sent to each sink equals the multiset of filter-passing
\* records of every result the Collector handled, the results handled by
\* the final check_all_results included; none is left in the OutputCache.
C3_SinksHoldAllHandled ==
    (mon_pc = "done" /\ mon_exit = "stats") =>
        /\ \A i \in DOMAIN sinks : SameMultiset(sinks[i], handled)
        /\ cache = <<>>

\* C4: on the global-timeout path too the OutputCache is flushed before
\* end_run: when monitor ends a timed-out run with no result left to drain,
\* the records that were buffered when the timeout fired have been sent to
\* the sinks, none is dropped.
C4_TimeoutFlushes ==
    [][(mon_pc = "drain" /\ mon_exit = "timeout" /\ result_ch = <<>>
        /\ mon_pc' = "done")
       => (cache' = <<>>
           /\ \A i \in DOMAIN sinks : SameMultiset(sinks'[i], handled'))]_vars

\* C5: a blob whose content_id is present and unexpired in the shared
\* KnownBlobsCache when the discoverer examines it, an id the Collector
\* inserted earlier in the same run included, is never forwarded to the
\* fetch queue (and so never fetched nor counted as found).
C5_KnownNeverForwarded == known_fetch = FALSE

\* the RunStats the message loop has published
StatsPublished == ml_pc = "done"

\* C6: the final RunStats satisfy blobs_successful + blobs_error =
\* blobs_found, for every mix of discovery errors, fetch errors, retries and
\* give-ups.
C6_StatsBalance ==
    StatsPublished =>
        state.stats.blobs_successful + state.stats.blobs_error
            = state.stats.blobs_found

\* C7: the final RunStats satisfy blobs_retried <= retries * blobs_found,
\* runs with retried discovery URLs and with errors during a backoff
\* included.
C7_RetriedBound ==
    StatsPublished =>
        state.stats.blobs_retried <= retries * state.stats.blobs_found

\* the number of items the message loop has re-sent to an input channel
RECURSIVE TotalOver(_, _)
TotalOver(f, keys) ==
    IF keys = {} THEN 0
    ELSE LET k == CHOOSE x \in keys : TRUE
         IN f[k] + TotalOver(f, keys \ {k})

ResendsTotal(r) == TotalOver(r, AllUrls)

\* C8: blobs_retried grows by exactly 1 for each item the message loop
\* re-sends to an input channel, and by 0 otherwise, on the blob_error and
\* on the content_error path.
C8_RetriedCountsResends ==
    [][state'.stats.blobs_retried - state.stats.blobs_retried
         = ResendsTotal(resends') - ResendsTotal(resends)]_vars

\* the part of its budget that the retry map says a URL has used
RetriesUsed(map, u) ==
    IF LruHas(map, u) THEN retries - LruPeek(map, u) ELSE 0

\* C9: with no backoff active, a URL whose requests keep failing is re-sent
\* exactly `retries` times and given up on the next error, the give-up
\* removing it from the retry map and being counted once: at every moment
\* its re-sends are `retries` for each completed give-up plus the budget
\* its entry in the retry map has used.
C9_RetriesThenGiveUp ==
    (rate_limit_backoff_started = NoTime) =>
        \A u \in AllUrls :
            resends[u] = retries * giveups[u] + RetriesUsed(retry_map, u)

\* C10: while rate_limited is true, an error arriving on blob_error or
\* content_error neither gives the URL up nor consumes its budget: an
\* entry keeps its retries_left and a first error leaves the full budget.
C10_BackoffKeepsBudget ==
    [][(state.rate_limited /\ state'.rate_limited) =>
         \A u \in AllUrls :
            /\ giveups'[u] = giveups[u]
            /\ RetriesUsed(retry_map', u) = RetriesUsed(retry_map, u)]_vars

\* C11 (as stated): monitor always terminates, whatever the workers and
\* the message loop do, for every configured global_timeout, 0 included.
C11_MonitorTerminates == <>(mon_pc = "done")

\* C11 (amended): with a global_timeout of at least one minute monitor
\* always terminates, even if stats are never published and the workers
\* stall; a global_timeout of 0 disables the timeout.
C11_TimeoutEndsMonitor == (global_timeout > 0) => <>(mon_pc = "done")

\* monitor has ended a run by the timeout while a blob was still waiting in
\* the fetch queue and the message loop had not left its loop
C11_TimedOutWhileStalled ==
    /\ mon_pc = "done" /\ mon_exit = "timeout"
    /\ content_ch # <<>> /\ ml_pc = "loop"

\* C12: when a run was ended by the global timeout and the message loop has
\* ended too, the final RunStats were published and taken by the Collector
\* (none is left unread on the stats channel), and blobs_error covers every
\* blob that was found but not retrieved.
C12_TimeoutStatsReported ==
    (mon_pc = "done" /\ mon_exit = "timeout" /\ ~MlAlive) =>
        /\ StatsPublished
        /\ stats_ch = <<>>
        /\ state.stats.blobs_error
             >= state.stats.blobs_found - state.stats.blobs_successful

\* C13: end_run (the step that takes monitor from its drain to its end)
\* rewrites the state file of every configured subscription with
\* last_log_time = last_run = now when only_future_events is enabled, and
\* when it is disabled no step of the run creates or changes a state file.
EndRunStep == mon_pc = "drain" /\ mon_pc' = "done"
C13_EndRunBookmarks ==
    [][/\ ~only_future_events => bookmark' = bookmark
       /\ (EndRunStep /\ only_future_events) =>
             \A i \in DOMAIN subscriptions :
                /\ bookmark'[subscriptions[i]].exists
                /\ bookmark'[subscriptions[i]].last_log_time = UtcNow
                /\ bookmark'[subscriptions[i]].last_run = UtcNow]_vars
C13_BothRewritten ==
    /\ mon_pc = "done" /\ only_future_events /\ now > 0
    /\ Len(subscriptions) = 2
    /\ \A i \in DOMAIN subscriptions :
          /\ bookmark[subscriptions[i]].last_log_time = UtcNow
          /\ bookmark[subscriptions[i]].last_run = UtcNow

\* C14: in only-future-events mode with no state file present, the clean end
\* of the first run leaves state files with first_run = TRUE and the
\* last_log_time written at tenant start (now - 1 s), and the next run starts
\* at exactly that timestamp.
StartedWithoutStateFile ==
    /\ only_future_events
    /\ start_from \in {AtTick(k) - Second : k \in 0..MaxNow}
C14_FirstRunBookmarkKept ==
    [][/\ (EndRunStep /\ run_no = 1 /\ StartedWithoutStateFile
            /\ mon_exit = "stats") =>
             \A i \in DOMAIN subscriptions :
                /\ bookmark'[subscriptions[i]].first_run
                /\ bookmark'[subscriptions[i]].last_log_time = start_from
       /\ (run_pc = "start" /\ run_pc' = "runs" /\ run_no = 2
            /\ StartedWithoutStateFile /\ mon_exit = "stats") =>
             start_from' = start_from]_vars

\* C15 (as amended): when get_needed_runs_from returns, the first window of
\* every subscription starts, to the second, at the last_log_time of the
\* first-listed subscription's state file if only_future_events is enabled
\* (the file found at tenant start, or the now - 1 s just written when none
\* was found), and at now - hours_to_collect hours if it is disabled.
WindowsBuilt == run_pc = "runs" /\ run_pc' = "new"
FirstStateFile == bookmark[subscriptions[1]]
C15_StartFromBookmark ==
    [][WindowsBuilt =>
         \A ct \in DOMAIN runs' :
            runs'[ct][1][1] =
               FormatSeconds(IF only_future_events
                             THEN FirstStateFile.last_log_time
                             ELSE UtcNow - hours_to_collect * Hour)]_vars
\* a run that started from a state file younger than hours_to_collect
C15_StartedFromRecentBookmark ==
    /\ run_pc = "new" /\ only_future_events
    /\ FirstStateFile.exists /\ ~FirstStateFile.first_run
    /\ FirstStateFile.last_log_time > UtcNow - hours_to_collect * Hour
    /\ \A ct \in DOMAIN runs :
          runs[ct][1][1] = FormatSeconds(FirstStateFile.last_log_time)
\* C15 (as stated): the start is min(last_log_time, now - hours_to_collect
\* hours) when only_future_events is enabled and a state file existed, and
\* now - hours_to_collect hours otherwise.
C15_StartIsMin ==
    [][WindowsBuilt =>
         \A ct \in DOMAIN runs' :
            runs'[ct][1][1] =
               FormatSeconds(
                  IF /\ only_future_events /\ ~FirstStateFile.first_run
                     /\ FirstStateFile.last_log_time
                           < UtcNow - hours_to_collect * Hour
                  THEN FirstStateFile.last_log_time
                  ELSE UtcNow - hours_to_collect * Hour)]_vars

\* C16: for every subscription and every start <= now, the list returned by
\* get_needed_runs_from is non-empty, its windows are consecutive and at most
\* 24 hours long, the first starts at the start and the last ends at now
\* (endpoints as formatted, to the second); 72 hours give three windows of 24
\* hours, 25 hours a window of 24 hours and one of 1 hour.
WindowLen(w) == w[2] - w[1]
C16_WindowsCoverRange ==
    [][WindowsBuilt =>
         LET start == IF start_from # NoTime THEN start_from
                      ELSE UtcNow - hours_to_collect * Hour
         IN /\ DOMAIN runs' = {subscriptions[i] : i \in DOMAIN subscriptions}
            /\ \A ct \in DOMAIN runs' :
                  LET w == runs'[ct] IN
                  start <= UtcNow =>
                    /\ Len(w) >= 1
                    /\ w[1][1] = FormatSeconds(start)
                    /\ w[Len(w)][2] = FormatSeconds(UtcNow)
                    /\ \A i \in 1..(Len(w) - 1) : w[i][2] = w[i + 1][1]
                    /\ \A i \in 1..Len(w) :
                          /\ WindowLen(w[i]) >= 0
                          /\ WindowLen(w[i]) <= WINDOW_HOURS * Hour
                    /\ (start_from = NoTime /\ hours_to_collect = 72) =>
                          /\ Len(w) = 3
                          /\ \A i \in 1..3 :
                                WindowLen(w[i]) = WINDOW_HOURS * Hour
                    /\ (start_from = NoTime /\ hours_to_collect = 25) =>
                          /\ Len(w) = 2
                          /\ WindowLen(w[1]) = WINDOW_HOURS * Hour
                          /\ WindowLen(w[2]) = Hour]_vars
C16_TwentyFiveHoursSplit ==
    /\ run_pc = "new" /\ start_from = NoTime /\ hours_to_collect = 25
    /\ Len(subscriptions) = 2
    /\ \A ct \in DOMAIN runs :
          /\ Len(runs[ct]) = 2
          /\ WindowLen(runs[ct][1]) = WINDOW_HOURS * Hour
          /\ WindowLen(runs[ct][2]) = Hour
          /\ runs[ct][1][2] = runs[ct][2][1]

\* C17: the range of the windows of a run never exceeds 168 hours: with
\* hours_to_collect > 168 get_needed_runs_from ends in the fatal error and
\* produces no window, and windows that start from a state file span at most
\* 168 hours too.
RunsReturned == run_pc = "runs" /\ run_pc' # "runs"
C17_RangeCapped ==
    [][RunsReturned =>
         /\ hours_to_collect > MAX_HOURS =>
               run_pc' = "panicked" /\ runs' = runs
         /\ run_pc' = "new" =>
               \A ct \in DOMAIN runs' :
                  runs'[ct][Len(runs'[ct])][2] - runs'[ct][1][1]
                     <= MAX_HOURS * Hour]_vars

\* C18: save_to_file followed by load_from_file (no other call on the cache
\* in between) yields a cache whose ids are exactly the ids of the saved
\* cache whose expiration is later than the instant of the load.
LoadAfterSave == kb_ret.op = "save" /\ kb_ret'.op = "load"
UnexpiredIds(kb, t) ==
    {kb.cache[i].k : i \in {j \in 1..Len(kb.cache) : kb.cache[j].v > t}}
C18_SaveLoadKeepsUnexpired ==
    [][LoadAfterSave =>
         LruKeys(known_blobs'.cache) = UnexpiredIds(known_blobs, UtcNow)]_vars

\* C19: after any sequence of insert, contains and cleanup_expired calls,
\* contains(id) returns true exactly when the cache holds an entry for id
\* whose expiration is strictly later than now; an entry that is held but
\* has expired is removed by the call, which returns false.
ContainsStep == kb_ret'.op = "contains" /\ now' = now
C19_ContainsIffUnexpired ==
    [][ContainsStep =>
         LET id == kb_ret'.id
             held == LruHas(known_blobs.cache, id)
             live == held /\ LruPeek(known_blobs.cache, id) > UtcNow
         IN /\ kb_ret'.ret = live
            /\ (held /\ ~live) => ~LruHas(known_blobs'.cache, id)
            /\ live => LruHas(known_blobs'.cache, id)]_vars
\* contains has just removed an expired entry while a live one is held
C19_ExpiredEntryRemoved ==
    /\ kb_ret.op = "contains" /\ kb_ret.held /\ ~kb_ret.ret
    /\ ~LruHas(known_blobs.cache, kb_ret.id)
    /\ \E i \in 1..Len(known_blobs.cache) : known_blobs.cache[i].v > UtcNow

\* C20: the cache never holds more entries than its capacity; an insert of
\* a new id into a full cache removes exactly the entry used least recently,
\* where an insert and a contains that returned true count as uses; and
\* four distinct ids inserted into an empty cache of capacity 3 leave the
\* first invisible to contains and the other three visible.
StoredNewInFull ==
    /\ kb_ret'.op = "insert" /\ now' = now
    /\ known_blobs' # known_blobs
    /\ ~LruHas(known_blobs.cache, kb_ret'.id)
    /\ Len(known_blobs.cache) = known_blobs.max_entries
InsertAll(kb, ids, expiration_str, t) ==
    LET k1 == KbInsert(kb, ids[1], expiration_str, t)
        k2 == KbInsert(k1, ids[2], expiration_str, t)
        k3 == KbInsert(k2, ids[3], expiration_str, t)
    IN KbInsert(k3, ids[4], expiration_str, t)
FourIds ==
    {ids \in [1..4 -> KbIds] : \A i, j \in 1..4 : i # j => ids[i] # ids[j]}
InsertStep == kb_ret'.op = "insert" /\ now' = now
C21_RejectedInsertIsNoOp ==
    [][InsertStep =>
         LET exp_time == parse_expiration(kb_ret'.exp) IN
         /\ (exp_time = NoTime \/ exp_time <= UtcNow) =>
               /\ known_blobs' = known_blobs
               /\ kb_recent' = kb_recent
         /\ known_blobs' # known_blobs =>
               /\ known_blobs'.cache[1].k = kb_ret'.id
               /\ known_blobs'.cache[1].v > UtcNow]_vars
\* an insert whose expiration is the very instant of the call was refused
\* by a cache that holds another entry, after an insert that was counted
C21_ExpiringNowRefused ==
    /\ kb_ret.op = "insert" /\ ~kb_ret.held
    /\ parse_expiration(kb_ret.exp) = UtcNow
    /\ ~LruHas(known_blobs.cache, kb_ret.id)
    /\ Len(known_blobs.cache) = 1 /\ known_blobs.insert_count = 1

\* C22: handle_log drops a record exactly when some key of the content
\* type's filter is present in the record with another value than the
\* filter's; every other record (one that lacks a filter key included) is
\* put into the OutputCache with OriginFeed set to the blob's content type.
\* Of the records Send, Read under the filter Operation = Send only the first
\* is forwarded.
ResultHandled ==
    mon_pc = "poll" /\ result_ch # <<>> /\ result_ch' = Tail(result_ch)
FilterMismatch(log, content_type) ==
    /\ content_type \in DOMAIN FilterConfig
    /\ \E k \in DOMAIN FilterConfig[content_type] :
          k \in DOMAIN log /\ log[k] # FilterConfig[content_type][k]
Tagged(logs, content_type) ==
    [i \in 1..Len(logs) |->
        [k \in DOMAIN logs[i] \cup {"OriginFeed"} |->
            IF k = "OriginFeed" THEN content_type ELSE logs[i][k]]]
C22_FilterDropsMismatches ==
    [][ResultHandled =>
         LET logs == Head(result_ch)[1].logs
             ct == Head(result_ch)[2].content_type
             kept == SelectSeq(logs, LAMBDA l : ~FilterMismatch(l, ct))
         IN /\ handled' = handled \o Tagged(kept, ct)
            /\ saved' = saved + Len(kept)
            /\ (ct = "Audit.Exchange" /\ logs = SendThenRead) =>
                  handled' = handled \o
                     << [Operation |-> "Send", a |-> 1,
                         OriginFeed |-> "Audit.Exchange"] >>]_vars
\* three results were handled and two records forwarded: the first of the
\* Send, Read body of an Exchange blob and a DLP.All record that lacks a
\* filter key; every other record delivered was dropped
C22_OneOfTwoForwarded ==
    /\ fetches["b1"] = 3 /\ result_ch = <<>>
    /\ handled = << [Operation |-> "Send", a |-> 1,
                     OriginFeed |-> "Audit.Exchange"],
                    [Workload |-> "Exchange", OriginFeed |-> "DLP.All"] >>

\* C23: a sink that cannot be written does not stop the run: monitor is
\* never aborted by the file sink's path not opening, and when it has ended
\* the run (end_run done) every other sink holds the records that were
\* handled.
OtherSinks == DOMAIN sinks \ {1}
C23_SinkFailureTolerated ==
    /\ mon_pc # "panicked"
    /\ mon_pc = "done" =>
          \A i \in OtherSinks : SameMultiset(sinks[i], handled)

\* C24: for any (tenant, subscription), load_state returns the state most
\* recently written by save_state for that pair, and None when nothing was
\* saved for it or the file cannot be read or parsed; is_first_run is true
\* exactly when load_state returns None.
C24_LoadReturnsLastSaved ==
    [][LET t == sm_ret'.tenant_id
           sub == sm_ret'.subscription
       IN /\ sm_ret'.op = "load" =>
                sm_ret'.state =
                   IF /\ sm_saved[<<t, sub>>] # NoFile
                      /\ state_files[get_state_file_path(t, sub)].kind
                            = "state"
                   THEN sm_saved[<<t, sub>>]
                   ELSE NoFile
          /\ sm_ret'.op = "is_first_run" =>
                sm_ret'.flag = (load_state(state_files, t, sub) = NoFile)]_vars

\* C25: should_include_log(subscription, record_type) returns true only for
\* a record type that belongs to the subscription: DLP.All accepts 28 and
\* rejects 4 and 6; Audit.SharePoint accepts 4, 6 and 14 and rejects 25;
\* Audit.Exchange accepts 1, 2 and 50 and rejects 6.
OwnRecordTypes(subscription) ==
    CASE subscription = "DLP.All" -> {11, 13, 28}
      [] subscription = "Audit.Exchange" -> {1, 2, 3, 20, 50}
      [] subscription = "Audit.SharePoint" -> {4, 6, 14, 19}
      [] subscription = "Audit.AzureActiveDirectory" -> {8, 15}
      [] subscription = "Audit.General" ->
            {25, 30, 32, 40, 44, 62, 63, 64, 65, 70}
      [] OTHER -> RecordTypes
C25_OnlyOwnRecordTypes ==
    rt_ret.op = "should_include_log" =>
        LET sub == rt_ret.subscription
            rt == rt_ret.record_type
        IN /\ rt_ret.ret => rt \in OwnRecordTypes(sub)
           /\ (sub = "DLP.All" /\ rt = 28) => rt_ret.ret
           /\ (sub = "DLP.All" /\ rt \in {4, 6}) => ~rt_ret.ret
           /\ (sub = "Audit.SharePoint" /\ rt \in {4, 6, 14}) => rt_ret.ret
           /\ (sub = "Audit.SharePoint" /\ rt = 25) => ~rt_ret.ret
           /\ (sub = "Audit.Exchange" /\ rt \in {1, 2, 50}) => rt_ret.ret
           /\ (sub = "Audit.Exchange" /\ rt = 6) => ~rt_ret.ret

\* ------------------------------------------------------------------ C26
\* The decrements of one pass: the status handlers for RetrievedContentBlob
\* and ErrorContentBlob and the give-up of a fetch error subtract 1 from
\* awaiting_content_blobs, the give-up of a discovery error subtracts 1 from
\* awaiting_content_types (FinishedContentBlobs saturates).  A pass that
\* starts in view m applies one of them to a counter that is 0 when:
StatusDecrementAtZero(m) ==
    /\ m.pc = "loop"
    /\ m.status_ch # <<>>
    /\ Head(m.status_ch) \in {"RetrievedContentBlob", "ErrorContentBlob"}
    /\ m.state.awaiting_content_blobs = 0

GiveUpAtZero(m, ch, url, awaiting) ==
    /\ m.pc = "loop"
    /\ ch # <<>>
    /\ LruHas(m.retry_map, url)
    /\ GiveUpAt(LruPeek(m.retry_map, url))
    /\ awaiting = 0

DecrementAtZero(m0) ==
    LET m1 == KillPart(ReleasePart(m0))
        m2 == StatusPart(m1)
        m3 == BlobErrorPart(m2)
    IN \/ StatusDecrementAtZero(m1)
       \/ GiveUpAtZero(m2, m2.blob_error_ch,
                       IF m2.blob_error_ch = <<>> THEN ""
                       ELSE Head(m2.blob_error_ch)[2],
                       m2.state.awaiting_content_types)
       \/ GiveUpAtZero(m3, m3.content_error_ch,
                       IF m3.content_error_ch = <<>> THEN ""
                       ELSE Head(m3.content_error_ch).url,
                       m3.state.awaiting_content_blobs)

\* a pass of the message loop that changed its counters or ended it
MlPassStep == ml_pc = "loop" /\ (state' # state \/ ml_pc' # ml_pc)

\* a usize that holds the wrapped result of 0 - 1 (or lower)
BelowZero(x) == x >= USIZE_MOD \div 2

\* C26: awaiting_content_types and awaiting_content_blobs never go below 0:
\* no pass of the message loop applies a decrement to a counter that is 0
\* (neither for a RetrievedContentBlob read before the matching
\* FoundNewContentBlob nor in a give-up), and no counter holds a wrapped
\* value afterwards.
C26_NoDecrementAtZero ==
    [][/\ MlPassStep => ~DecrementAtZero(MlView)
       /\ ~BelowZero(state'.awaiting_content_types)
       /\ ~BelowZero(state'.awaiting_content_blobs)]_vars

\* runs of both feeds in which a listing or a fetch can fail with a
\* transient error, the clock standing still
MaxChainFaults == 2

InitChains == InitWith({BothUrls}, {1}, {0}, Builds, MaxChainFaults)

NextChains ==
    MessageLoop \/ Discoverer \/ Fetcher \/ DiscGetError \/ FetchError
        \/ Monitor

ChainSpec == InitChains /\ [][NextChains]_vars

\* runs of a feed with a second page and a feed that lists nothing, in which
\* a listing or a fetch can fail with a transient error: more URLs can fail
\* than the retry map holds
MaxRetryFaults == 4

RetryUrls == << <<"Audit.Exchange", "p1">>, <<"DLP.All", "d1">> >>

InitRetry == InitWith({RetryUrls}, {1}, {0}, Builds, MaxRetryFaults)

RetrySpec == InitRetry /\ [][NextChains]_vars

\* part of a tick passes on the monotonic clock
SubTick ==
    /\ phase < SUB_TICKS - 1
    /\ phase' = phase + 1
    /\ UNCHANGED <<config_vars, tenant_vars, kb_hist, file_path_ok, unit_vars,
                   bounded_vars, peers, chan_vars, ml_vars, disc_vars, mon_vars, now,
                   faults_left,
                   hist_vars>>

\* runs of one feed whose requests can be throttled while the clock runs
MaxThrottles == 2

InitBackoff ==
    InitWith({ExchangeUrls}, {1}, {0}, {"release"}, MaxThrottles)

NextBackoff ==
    MessageLoop \/ Discoverer \/ Fetcher \/ DiscGetThrottled
        \/ FetchThrottled \/ Monitor \/ Tick \/ SubTick

BackoffSpec == InitBackoff /\ [][NextBackoff]_vars

\* ------------------------------------------------------------------ C27
\* the loop leaves through check_done: no kill message was read in this pass
ExitsThroughCheckDone ==
    ml_pc = "loop" /\ ml_pc' = "grace" /\ kill_ch = <<>>

\* a seeded page chain that has neither signalled exhaustion nor been given
\* up: a URL not yet sent, queued, being listed, or waiting for its retry
PagesOutstanding ==
    urls # <<>> \/ blobs_ch # <<>> \/ disc # {} \/ blob_error_ch # <<>>

\* a discovered blob queued for its fetch or waiting for its retry
BlobsOutstanding == content_ch # <<>> \/ content_error_ch # <<>>

FoundUnprocessed ==
    \E i \in 1..Len(status_ch) : status_ch[i] = "FoundNewContentBlob"

WorkOutstanding == PagesOutstanding \/ BlobsOutstanding \/ FoundUnprocessed

\* C27: the message loop never declares the run complete while work is
\* outstanding: when it exits through check_done, every seeded page chain
\* has signalled exhaustion or been given up, no discovered blob is queued,
\* in flight or awaiting retry, and no FoundNewContentBlob is unprocessed
\* on the status channel.
C27_NoExitWhileWorkOutstanding ==
    [][ExitsThroughCheckDone => ~WorkOutstanding']_vars

\* ------------------------------------------------------------------ C28
\* C28: when the message loop exits after a completed run, the retry map
\* holds no entry for any URL that was enqueued, whether the URL succeeded
\* after one or more retries or was given up.
C28_RetryMapEmptyAtExit ==
    [][ExitsThroughCheckDone
           => \A url \in AllUrls : ~LruHas(retry_map', url)]_vars

\* ------------------------------------------------------------------ C29
\* C29: each URL draws its retry budget at most once per run: also when the
\* retry map is at capacity and entries are evicted, a URL that keeps
\* failing is re-sent at most `retries` times (no rate limiting in the run).
C29_BudgetDrawnOnce ==
    rate_limit_backoff_started = NoTime
        => \A url \in AllUrls : resends[url] <= retries

\* ------------------------------------------------------------------ C30
\* a pass of the message loop that reads BeingThrottled from the status
\* channel (no kill message ends the pass before)
ReadsBeingThrottled ==
    /\ MlLoop
    /\ KillPart(ReleasePart(MlView)).pc = "loop"
    /\ status_ch # <<>>
    /\ Head(status_ch) = "BeingThrottled"

\* the backoff is running and its time is not over
BackoffActive ==
    rate_limit_backoff_started # NoTime /\ ~BackoffOver(MlView)

\* C30: the backoff is started by the first BeingThrottled (the instant it
\* is read) and is neither restarted nor extended by a BeingThrottled read
\* while it is active; state.rate_limited is true exactly while a backoff
\* timer is set, and the first pass made when 30 s have elapsed since the
\* start resets it to false (a BeingThrottled read in that pass starts a
\* new backoff).
C30_BackoffNotExtended ==
    [][/\ state'.rate_limited = (rate_limit_backoff_started' # NoTime)
       /\ BackoffActive
              => /\ rate_limit_backoff_started' = rate_limit_backoff_started
                 /\ state'.rate_limited
       /\ (ReadsBeingThrottled /\ ~BackoffActive)
              => /\ rate_limit_backoff_started' = InstantNow
                 /\ state'.rate_limited
       /\ (MlLoop /\ BackoffOver(MlView) /\ ~ReadsBeingThrottled)
              => /\ rate_limit_backoff_started' = NoTime
                 /\ ~state'.rate_limited]_vars

\* a backoff started at an earlier instant is active and the message loop is
\* about to read another BeingThrottled
C30_SecondThrottleInBackoff ==
    /\ ml_pc = "loop"
    /\ kill_ch = <<>>
    /\ status_ch # <<>>
    /\ Head(status_ch) = "BeingThrottled"
    /\ state.rate_limited
    /\ rate_limit_backoff_started # NoTime
    /\ rate_limit_backoff_started < InstantNow
    /\ ~BackoffOver(MlView)

\* ------------------------------------------------------------------ C31
\* C31: whenever the message loop exits because the run is complete (both
\* counters zero), whichever status event triggered the completion check,
\* it has closed the content channel (the fetch input) in that pass.
C31_CompletionClosesContent ==
    [][ExitsThroughCheckDone => content_closed']_vars

\* ------------------------------------------------------------------ C32
\* the final stats send (lines 661-668) ends the task with a panic
StatsSendFails ==
    ml_pc = "grace" /\ ~CollectorAlive /\ ml_pc' = "panicked"

\* the re-send of a failed blob (lines 648, 655) finds the content channel
\* closed and ends the task with a panic
ResendFails ==
    /\ ml_pc = "loop" /\ ml_pc' = "panicked"
    /\ LET m == BlobErrorPart(StatusPart(KillPart(ReleasePart(MlView))))
       IN /\ m.pc = "loop"
          /\ m.content_error_ch # <<>>
          /\ m.content_closed
          /\ Resent(RetryDecision(m, Head(m.content_error_ch).url,
                                  m.state.awaiting_content_blobs).kind)

\* C32: no send of the message loop fails fatally when the receiving end is
\* closed or dropped at shutdown: a re-send and the final stats send to a
\* Collector that has exited are dropped silently and the task goes on to
\* its terminal state.
C32_SendsNeverFatal ==
    [][~StatsSendFails /\ ~ResendFails]_vars

\* ------------------------------------------------------------------ C33
\* the expiration of a blob is valid and in the future
InsertDue(content) ==
    /\ parse_expiration(content.expiration) # NoTime
    /\ UtcNow < parse_expiration(content.expiration)

Recorded(kb, content) ==
    /\ LruHas(kb.cache, content.content_id)
    /\ LruPeek(kb.cache, content.content_id)
           = parse_expiration(content.expiration)

\* check_all_results has taken every queued item and end_run has run
ResultsDrained == mon_pc = "drain" /\ mon_pc' = "done"

\* C33: for every (body, blob) item the Collector takes from the results
\* channel, the blob's content_id is inserted into the KnownBlobsCache
\* (when its expiration is valid and in the future), also when the body is
\* not a parseable JSON array, in which case no record is added to the
\* OutputCache.
C33_UnparseableStillRecorded ==
    [][/\ ResultHandled =>
            LET msg == Head(result_ch)[1]
                content == Head(result_ch)[2]
            IN /\ InsertDue(content) => Recorded(known_blobs', content)
               /\ ~msg.json => /\ handled' = handled
                               /\ saved' = saved
                               /\ cache' = cache
                               /\ sinks' = sinks
       /\ ResultsDrained =>
            /\ \A i \in 1..Len(result_ch) :
                  InsertDue(result_ch[i][2])
                      => Recorded(known_blobs', result_ch[i][2])
            /\ (\A i \in 1..Len(result_ch) : ~result_ch[i][1].json)
                  => handled' = handled /\ saved' = saved]_vars

\* the one fetch of b1 returned a body that did not parse; the Collector has
\* taken it from the results channel: b1 is known and nothing was handled
C33_NotJsonBlobKnown ==
    /\ mon_pc = "poll"
    /\ fetches["b1"] = 1
    /\ result_ch = <<>>
    /\ handled = <<>>
    /\ saved = 0
    /\ LruHas(known_blobs.cache, "b1")


\* ------------------------------------------------------ bounded channels
\* Every channel of the pipeline is made with a buffer of 10_000
\* (collector.rs 354-381) and every send is awaited: a send into a full
\* channel suspends its task until the receiver has taken a message.  The
\* capacity is scaled to ChannelCap; a run of two listings of four blobs
\* in all then fills the channels as a run of tens of thousands of blobs fills
\* the real ones.  A suspended task keeps what it was about to send: the
\* message loop in ml_send, a worker in in_hand.
ChannelCap == 1
MaxBusyFaults == 1

Room(ch) == Len(ch) < ChannelCap

\* a request a worker took (its URL) and the sends it has still to make
Job(pool, url, sends) == [pool |-> pool, url |-> url, sends |-> sends]
Snd(ch, msg) == [ch |-> ch, msg |-> msg]
Pool(p) == {j \in in_hand : j.pool = p}
DiscBusy == Cardinality(disc) + Cardinality(Pool("disc"))

MlAssign(m) ==
    /\ ml_pc' = m.pc
    /\ state' = m.state
    /\ rate_limit_backoff_started' = m.backoff
    /\ retry_map' = m.retry_map
    /\ kill_ch' = m.kill_ch
    /\ status_ch' = m.status_ch
    /\ blob_error_ch' = m.blob_error_ch
    /\ content_error_ch' = m.content_error_ch
    /\ blobs_ch' = m.blobs_ch
    /\ content_ch' = m.content_ch
    /\ content_closed' = m.content_closed
    /\ resends' = m.resends
    /\ giveups' = m.giveups

Last(q) == q[Len(q)]

\* lines 523-526 with the channel bounded: the seed waits for room
BMlSeed == (urls = <<>> \/ Room(blobs_ch)) /\ MlSeed

\* the rest of a pass from the content_error handler on (lines 635-659);
\* a re-send into the full content channel suspends the pass (line 649)
MlPassEnd(m2) ==
    LET m3 == ContentErrorPart(m2)
    IN IF Len(m3.content_ch) > ChannelCap
       THEN /\ MlAssign([m3 EXCEPT !.content_ch = m2.content_ch])
            /\ ml_send' = Snd("content", Last(m3.content_ch))
       ELSE /\ MlAssign(m3)
            /\ ml_send' = NoSend

\* lines 538-660 with the channels bounded: a pass runs up to a re-send into
\* a full channel (line 624 or 649) and is suspended there
BMlLoop ==
    /\ ml_pc = "loop"
    /\ ml_send.ch = "none"
    /\ LET m2 == BlobErrorPart(StatusPart(KillPart(ReleasePart(MlView))))
       IN IF Len(m2.blobs_ch) > ChannelCap
          THEN /\ MlAssign([m2 EXCEPT !.blobs_ch = blobs_ch])
               /\ ml_send' = Snd("blobs", Last(m2.blobs_ch))
          ELSE MlPassEnd(m2)
    /\ UNCHANGED <<config_vars, tenant_vars, kb_hist, file_path_ok, unit_vars,
                   phase, peers, in_hand, result_ch, stats_ch, disc_vars, mon_vars,
                   env_vars, fetches, handled, known_fetch>>

\* the receiver has made room: the suspended send completes and the pass
\* goes on
BMlResume ==
    /\ ml_pc = "loop"
    /\ ml_send.ch # "none"
    /\ IF ml_send.ch = "blobs"
       THEN /\ Room(blobs_ch)
            /\ MlPassEnd([MlView EXCEPT
                             !.blobs_ch = Append(blobs_ch, ml_send.msg)])
       ELSE /\ Room(content_ch)
            /\ MlAssign([MlView EXCEPT
                            !.content_ch = Append(content_ch, ml_send.msg)])
            /\ ml_send' = NoSend
    /\ UNCHANGED <<config_vars, tenant_vars, kb_hist, file_path_ok, unit_vars,
                   phase, peers, in_hand, result_ch, stats_ch, disc_vars, mon_vars,
                   env_vars, fetches, handled, known_fetch>>

BMessageLoop == BMlSeed \/ BMlLoop \/ BMlResume \/ MlSendStats

\* get_content_blobs_async with the channels bounded (spec.md 4.5, 5)
BDiscGetOk == DiscBusy < Threads /\ DiscGetOk

BDiscGetError ==
    /\ blobs_ch # <<>>
    /\ DiscBusy < Threads
    /\ faults_left > 0
    /\ faults_left' = faults_left - 1
    /\ in_hand' = in_hand
                    \cup {Job("disc", Head(blobs_ch)[2],
                              <<Snd("blob_error", Head(blobs_ch))>>)}
    /\ blobs_ch' = Tail(blobs_ch)
    /\ UNCHANGED <<config_vars, tenant_vars, kb_hist, file_path_ok, unit_vars,
                   phase, peers, ml_send, blob_error_ch, content_ch,
                   content_error_ch, result_ch, status_ch, stats_ch, kill_ch,
                   content_closed, ml_vars, disc_vars, mon_vars, now,
                   hist_vars>>

BDiscForward(t) == (Room(content_ch) \/ content_closed) /\ DiscForward(t)

BDiscFound(t) == (Room(status_ch) \/ ~MlAlive) /\ DiscFound(t)

BDiscPaging(t) ==
    /\ IF NextPageUri(t.url) # "" THEN Room(blobs_ch)
       ELSE Room(status_ch) \/ ~MlAlive
    /\ DiscPaging(t)

BDiscoverer ==
    \/ BDiscGetOk
    \/ BDiscGetError
    \/ \E t \in disc :
          DiscSkipKnown(t) \/ BDiscForward(t) \/ BDiscFound(t)
          \/ BDiscPaging(t)

\* get_content_async with the channels bounded (spec.md 4.6, 5): the GET is
\* made, then the worker has one or two sends to make
FetchSends(content, failed) ==
    IF failed THEN <<Snd("content_error", content)>>
    ELSE <<Snd("result", <<ContentBody(content.content_id), content>>),
           Snd("status", "RetrievedContentBlob")>>

BFetchTake(failed) ==
    /\ content_ch # <<>>
    /\ Cardinality(Pool("fetch")) < Threads
    /\ failed => faults_left > 0
    /\ faults_left' = IF failed THEN faults_left - 1 ELSE faults_left
    /\ in_hand' = in_hand
                    \cup {Job("fetch", Head(content_ch).url,
                              FetchSends(Head(content_ch), failed))}
    /\ content_ch' = Tail(content_ch)
    /\ fetches' = FetchCount
    /\ UNCHANGED <<config_vars, tenant_vars, kb_hist, file_path_ok, unit_vars,
                   phase, peers, ml_send, blobs_ch, blob_error_ch, content_error_ch,
                   result_ch, status_ch, stats_ch, kill_ch, content_closed,
                   ml_vars, disc_vars, mon_vars, now, resends, giveups,
                   handled, known_fetch>>

\* the channel a worker's next send goes to, and who receives from it
SendQueue(s) ==
    CASE s.ch = "status" -> status_ch
      [] s.ch = "blob_error" -> blob_error_ch
      [] s.ch = "content_error" -> content_error_ch
      [] OTHER -> result_ch
ReceiverAlive(s) == IF s.ch = "result" THEN CollectorAlive ELSE MlAlive
Suspended(s) == ReceiverAlive(s) /\ ~Room(SendQueue(s))

\* a worker makes its next send
BWorkerSend(j) ==
    /\ j \in in_hand
    /\ LET s == Head(j.sends)
           q == Send(SendQueue(s), s.msg, ReceiverAlive(s))
       IN /\ ~Suspended(s)
          /\ status_ch' = IF s.ch = "status" THEN q ELSE status_ch
          /\ blob_error_ch' = IF s.ch = "blob_error" THEN q ELSE blob_error_ch
          /\ content_error_ch' =
                IF s.ch = "content_error" THEN q ELSE content_error_ch
          /\ result_ch' = IF s.ch = "result" THEN q ELSE result_ch
    /\ in_hand' = (in_hand \ {j})
                    \cup (IF Len(j.sends) > 1
                          THEN {[j EXCEPT !.sends = Tail(@)]} ELSE {})
    /\ UNCHANGED <<config_vars, tenant_vars, kb_hist, file_path_ok, unit_vars,
                   phase, peers, ml_send, blobs_ch, content_ch, stats_ch, kill_ch,
                   content_closed, ml_vars, disc_vars, mon_vars, env_vars,
                   hist_vars>>

BFetcher == \E failed \in BOOLEAN : BFetchTake(failed)
BWorkers == \E j \in in_hand : BWorkerSend(j)

\* runs of two listings, four blobs in all, through channels of ChannelCap
InitBusy == InitWith({BusyUrls}, {1}, {0}, {"release"}, MaxBusyFaults)
NextBusy == BMessageLoop \/ BDiscoverer \/ BFetcher \/ BWorkers \/ Monitor
BusySpec == InitBusy /\ [][NextBusy]_vars

\* the message loop is suspended in a send into the full channel
MlSuspendedOn(name, ch) ==
    /\ ~Room(ch)
    /\ \/ ml_pc = "loop" /\ ml_send.ch = name
       \/ name = "blobs" /\ ml_pc = "seed" /\ urls # <<>>
\* every worker of the pool is suspended in a send to the message loop
PoolSuspended(p) ==
    /\ Cardinality(Pool(p)) = Threads
    /\ \A j \in Pool(p) :
          /\ Head(j.sends).ch # "result"
          /\ Suspended(Head(j.sends))

\* C34: no reachable state has the message loop suspended in a send into a
\* full blobs or content channel while every worker that takes from that
\* channel is suspended in a send into a full status, blob_error or
\* content_error channel, which only the message loop drains
C34_NoSendCycle ==
    /\ ~(MlSuspendedOn("content", content_ch) /\ PoolSuspended("fetch"))
    /\ ~(MlSuspendedOn("blobs", blobs_ch) /\ PoolSuspended("disc"))


\* ------------------------------------------------- tenants run in parallel
\* the blobs of a tenant's feeds
PeerBlobs(t) == IF t = "t1" THEN {"b1"} ELSE {"b2"}

PeerFrame ==
    UNCHANGED <<config_vars, tenant_vars, chan_vars, ml_vars, disc_vars,
                known_blobs, cache, saved, sinks, mon_pc, mon_exit, bookmark,
                faults_left, file_path_ok, unit_vars, phase, bounded_vars,
                hist_vars, kb_hist>>

\* Collector::new, lines 87-92: the cache is loaded from working_dir
PeerNew(t) ==
    /\ peers[t].pc = "spawned"
    /\ peers' = [peers EXCEPT
                    ![t].pc = "running",
                    ![t].kb = KbLoadFromFile(known_blobs_file, UtcNow)]
    /\ UNCHANGED <<known_blobs_file, now>>
    /\ PeerFrame

\* handle_content, line 247, for a blob of the tenant
PeerInsert(t, id) ==
    /\ peers[t].pc = "running"
    /\ id \notin peers[t].inserted
    /\ LET kb == KbInsert(peers[t].kb, id, ContentExpiration(id), UtcNow)
       IN peers' = [peers EXCEPT
                       ![t].kb = kb,
                       ![t].inserted =
                           IF LruHas(kb.cache, id) THEN @ \cup {id} ELSE @]
    /\ UNCHANGED <<known_blobs_file, now>>
    /\ PeerFrame

\* end_run, lines 196-204: the Collector's cache is written to the file
PeerEndRun(t) ==
    /\ peers[t].pc = "running"
    /\ peers' = [peers EXCEPT
                    ![t].pc = "done",
                    ![t].kb = KbCleanupExpired(@, UtcNow)]
    /\ known_blobs_file' = KbSaveToFile(peers[t].kb, UtcNow)
    /\ UNCHANGED now
    /\ PeerFrame

PeerTick ==
    /\ now < MaxNow
    /\ now' = now + 1
    /\ UNCHANGED <<known_blobs_file, peers>>
    /\ PeerFrame

\* two tenants of one configuration, from the spawn of their tasks to the
\* end of both
InitPeers ==
    InitTenant({FALSE}, {WINDOW_HOURS}, {<<"Audit.General">>}, {1}, {3})
NextPeers ==
    \/ \E t \in PeerTenants : PeerNew(t)
    \/ \E t \in PeerTenants : \E id \in PeerBlobs(t) : PeerInsert(t, id)
    \/ \E t \in PeerTenants : PeerEndRun(t)
    \/ PeerTick
PeersSpec == InitPeers /\ [][NextPeers]_vars

FileIdsNow == {known_blobs_file[i].id : i \in 1..Len(known_blobs_file)}
PeerUnexpired(t) ==
    {id \in peers[t].inserted :
        UtcNow < parse_expiration(ContentExpiration(id))}

\* C35: when every tenant's Collector has finished, the known_blobs file of
\* the common working_dir holds every unexpired id that any of them inserted
C35_AllTenantsIdsSaved ==
    (\A t \in PeerTenants : peers[t].pc = "done")
        => \A t \in PeerTenants : PeerUnexpired(t) \subseteq FileIdsNow


\* C36: in only-future-events mode the first window of run n+1 starts no
\* later than the last window of run n ended, for every subscription
LastWindowEnd(w) == w[Len(w)][2]
C36_NoGapBetweenRuns ==
    [][(WindowsBuilt /\ only_future_events /\ run_no > 1) =>
         \A ct \in DOMAIN runs' \cap DOMAIN runs :
            Len(runs[ct]) > 0 => runs'[ct][1][1] <= LastWindowEnd(runs[ct])]_vars


\* C37: when monitor left its loop on the global timeout, with no stats
\* received and work outstanding, end-of-run leaves the last_log_time of
\* every subscription's bookmark as it was
C37_TimeoutKeepsBookmarks ==
    [][(EndRunStep /\ mon_exit = "timeout" /\ stats_ch = <<>>
          /\ WorkOutstanding) =>
         \A i \in DOMAIN subscriptions :
            bookmark'[subscriptions[i]].last_log_time
               = bookmark[subscriptions[i]].last_log_time]_vars


\* C38: in only-future-events mode get_start_time_from_state leaves every
\* existing bookmark as it is, and when the windows are built every
\* subscription has a bookmark of its own (the one found, or the initial one
\* of now - 1 s) and its first window starts at that bookmark's last_log_time
StartTimeRead == run_pc = "start" /\ run_pc' = "runs"
C38_OwnBookmarkDrivesStart ==
    [][/\ (StartTimeRead /\ only_future_events) =>
             \A i \in DOMAIN subscriptions :
                bookmark[subscriptions[i]].exists =>
                   bookmark'[subscriptions[i]] = bookmark[subscriptions[i]]
       /\ (WindowsBuilt /\ only_future_events) =>
             \A ct \in DOMAIN runs' :
                /\ bookmark[ct].exists
                /\ runs'[ct][1][1] = FormatSeconds(bookmark[ct].last_log_time)
      ]_vars


\* runs with and without seeded URLs, every request answered, no timeout
\* configured, each task scheduled fairly by the executor
InitIdle == InitWith({<<>>, ExchangeUrls, GeneralUrls}, {1}, {0}, Builds, 0)
IdleSpec ==
    /\ InitIdle /\ [][NextLive]_vars
    /\ WF_vars(MessageLoop) /\ WF_vars(Discoverer) /\ WF_vars(Fetcher)
    /\ WF_vars(Monitor)

\* the message loop is started with no URL to seed
NothingToSeed ==
    /\ ml_pc = "seed" /\ urls = <<>>
    /\ state.awaiting_content_types = 0 /\ state.awaiting_content_blobs = 0
ZeroStatsPublished == ml_pc = "done" /\ FinalStats = <<0, 0, 0, 0>>

\* C39: a message loop with no URL to seed exits and publishes all-zero
\* stats, no kill being sent (no global timeout is configured)
C39_NoSeedRunCompletes == NothingToSeed ~> ZeroStatsPublished


\* runs of one feed with failing requests, for every configured retries
\* value from 0 on
InitAnyRetries ==
    InitWith({ExchangeUrls}, 0..MaxRetries, {0}, Builds, MaxFaults)
AnyRetriesSpec == InitAnyRetries /\ [][Next]_vars

\* C40: for every configured retries value, 0 included, every retries_left
\* held in the retry map is within 0..retries
C40_RetriesLeftInRange ==
    \A i \in 1..Len(retry_map) : retry_map[i].v \in 0..retries

====
